---------------------------- MODULE Spec2Model ----------------------------
(***************************************************************************)
(* enumer: a generator of helper methods for Go enumerated constants.      *)
(*                                                                         *)
(* The model follows one run of main (flags -> processType for each type   *)
(* -> generateCode: render, write, gofmt), the build of the generated file *)
(* by the Go tool chain, and then calls of the generated methods           *)
(* (codeTemplate) made by a client program.                                *)
(*                                                                         *)
(* Strings are sequences of one-character strings, so that TrimPrefix,     *)
(* TrimSpace, Split, sorting and map lookups work on the characters.       *)
(***************************************************************************)
EXTENDS Integers, Sequences, FiniteSets, TLC

VARIABLES
    args,         \* os.Args[1:], the words of the command line
    typeNames,    \* flag -type, as given on the command line
    output,       \* flag -output
    trimPrefix,   \* flag -trimprefix
    lineComment,  \* flag -linecomment
    sqlFlag,      \* flag -sql
    jsonFlag,     \* flag -json
    yamlFlag,     \* flag -yaml
    bitmaskFlag,  \* flag -bitmask
    pkg,          \* the loaded, type-checked package (packages.Load)
    pc,           \* position of the run: see the actions
    allElements,  \* main: typeName -> []Element, for the types processed
    artifact,     \* the output file: "none", "written" or "formatted"
    outFile,      \* the output file on disk: its name and what was rendered
    events,       \* the steps generateCode has taken, oldest first
    tables,       \* the generated package-level variables, per type, once built
    recv,         \* a client variable of the generated type (pointer receivers)
    call          \* the last call of a generated method and what it returned

vars == <<args, typeNames, output, trimPrefix, lineComment, sqlFlag, jsonFlag,
          yamlFlag, bitmaskFlag, pkg, pc, allElements, artifact, outFile,
          events, tables, recv, call>>

flagVars == <<args, typeNames, output, trimPrefix, lineComment, sqlFlag,
              jsonFlag, yamlFlag, bitmaskFlag, pkg>>

\* what generateCode leaves behind
genVars == <<artifact, outFile, events>>

----------------------------------------------------------------------------
(* Bounds of the model *)

\* most constants declared in a package
MaxConsts == 3
\* client values range over 0 .. MaxVal
MaxVal == 4
\* most flags passed to one variadic bitmask call
MaxFlags == 2

----------------------------------------------------------------------------
(* Strings *)

Str(c) == <<c>>

\* byte order of the characters the model uses (sort.Strings compares bytes)
Code(c) ==
    CASE c = "\n" -> 10 [] c = " " -> 32 [] c = "(" -> 40 [] c = ")" -> 41
      [] c = "," -> 44
      [] c = "0" -> 48 [] c = "1" -> 49 [] c = "2" -> 50 [] c = "3" -> 51
      [] c = "4" -> 52 [] c = "5" -> 53 [] c = "6" -> 54 [] c = "7" -> 55
      [] c = "8" -> 56 [] c = "9" -> 57
      [] c = "A" -> 65 [] c = "B" -> 66 [] c = "P" -> 80 [] c = "T" -> 84
      [] c = "U" -> 85 [] c = "X" -> 88 [] c = "a" -> 97 [] c = "b" -> 98
      [] OTHER -> 127

\* strings.HasPrefix
HasPrefix(s, prefix) ==
    /\ Len(s) >= Len(prefix)
    /\ SubSeq(s, 1, Len(prefix)) = prefix

\* strings.TrimPrefix: s without the leading prefix, or s itself
TrimPrefix(s, prefix) ==
    IF HasPrefix(s, prefix) THEN SubSeq(s, Len(prefix) + 1, Len(s)) ELSE s

\* unicode.IsSpace on the characters of the model
IsSpace(c) == c \in {" ", "\n"}

RECURSIVE TrimLeftSpace(_)
TrimLeftSpace(s) ==
    IF s # <<>> /\ IsSpace(Head(s)) THEN TrimLeftSpace(Tail(s)) ELSE s

RECURSIVE TrimRightSpace(_)
TrimRightSpace(s) ==
    IF s # <<>> /\ IsSpace(s[Len(s)])
    THEN TrimRightSpace(SubSeq(s, 1, Len(s) - 1))
    ELSE s

\* strings.TrimSpace
TrimSpace(s) == TrimRightSpace(TrimLeftSpace(s))

\* strings.Split(s, ","): the pieces between the commas, empty ones included
RECURSIVE SplitFrom(_, _)
SplitFrom(s, cur) ==
    IF s = <<>> THEN <<cur>>
    ELSE IF Head(s) = "," THEN <<cur>> \o SplitFrom(Tail(s), <<>>)
    ELSE SplitFrom(Tail(s), Append(cur, Head(s)))

Split(s) == SplitFrom(s, <<>>)

\* s < t for Go strings: bytewise lexicographic
RECURSIVE StrLess(_, _)
StrLess(s, t) ==
    IF t = <<>> THEN FALSE
    ELSE IF s = <<>> THEN TRUE
    ELSE IF Code(Head(s)) # Code(Head(t)) THEN Code(Head(s)) < Code(Head(t))
    ELSE StrLess(Tail(s), Tail(t))

\* insert x into the sorted sequence xs, after the entries not greater than x
RECURSIVE InsertSorted(_, _)
InsertSorted(x, xs) ==
    IF xs = <<>> THEN <<x>>
    ELSE IF StrLess(x, Head(xs)) THEN <<x>> \o xs
    ELSE <<Head(xs)>> \o InsertSorted(x, Tail(xs))

\* sort.Strings
RECURSIVE SortStrings(_)
SortStrings(xs) ==
    IF xs = <<>> THEN <<>> ELSE InsertSorted(Head(xs), SortStrings(Tail(xs)))

Digit(d) == CASE d = 0 -> "0" [] d = 1 -> "1" [] d = 2 -> "2" [] d = 3 -> "3"
              [] d = 4 -> "4" [] d = 5 -> "5" [] d = 6 -> "6" [] d = 7 -> "7"
              [] d = 8 -> "8" [] d = 9 -> "9"

\* the verb %d of fmt for an integer
RECURSIVE Decimal(_)
Decimal(n) ==
    IF n < 0 THEN <<"-">> \o Decimal(0 - n)
    ELSE IF n < 10 THEN <<Digit(n)>>
    ELSE Decimal(n \div 10) \o <<Digit(n % 10)>>

----------------------------------------------------------------------------
(* The command line: the flags of main.go 20-29 and flag.Parse *)

FlagType        == <<"t", "y", "p", "e">>
FlagOutput      == <<"o", "u", "t", "p", "u", "t">>
FlagTrimPrefix  == <<"t", "r", "i", "m", "p", "r", "e", "f", "i", "x">>
FlagLineComment == <<"l", "i", "n", "e", "c", "o", "m", "m", "e", "n", "t">>
FlagSQL         == <<"s", "q", "l">>
FlagJSON        == <<"j", "s", "o", "n">>
FlagYAML        == <<"y", "a", "m", "l">>
FlagBitmask     == <<"b", "i", "t", "m", "a", "s", "k">>

StringFlags == {FlagType, FlagOutput, FlagTrimPrefix}
BoolFlags   == {FlagLineComment, FlagSQL, FlagJSON, FlagYAML, FlagBitmask}

\* the word -name and the word -name=value
BoolArg(name) == <<"-">> \o name
ValueArg(name, value) == <<"-">> \o name \o <<"=">> \o value

\* the values of the flags before flag.Parse: the defaults of main.go 21-28
FlagDefaults ==
    [type |-> <<>>, output |-> <<>>, trimprefix |-> <<>>, linecomment |-> FALSE,
     sql |-> FALSE, json |-> FALSE, yaml |-> FALSE, bitmask |-> FALSE,
     err |-> FALSE]

\* the position of the first "=" in w, or 0
RECURSIVE IndexEq(_, _)
IndexEq(w, k) ==
    IF k > Len(w) THEN 0 ELSE IF w[k] = "=" THEN k ELSE IndexEq(w, k + 1)

\* flag.Value.Set for one flag
SetFlag(fs, name, value) ==
    CASE name = FlagType        -> [fs EXCEPT !.type = value]
      [] name = FlagOutput      -> [fs EXCEPT !.output = value]
      [] name = FlagTrimPrefix  -> [fs EXCEPT !.trimprefix = value]
      [] name = FlagLineComment -> [fs EXCEPT !.linecomment = value]
      [] name = FlagSQL         -> [fs EXCEPT !.sql = value]
      [] name = FlagJSON        -> [fs EXCEPT !.json = value]
      [] name = FlagYAML        -> [fs EXCEPT !.yaml = value]
      [] name = FlagBitmask     -> [fs EXCEPT !.bitmask = value]
      [] OTHER                  -> [fs EXCEPT !.err = TRUE]

\* strconv.ParseBool on the spellings the model uses
ParseBool(v) ==
    CASE v = <<"t", "r", "u", "e">>      -> [ok |-> TRUE, b |-> TRUE]
      [] v = <<"f", "a", "l", "s", "e">> -> [ok |-> TRUE, b |-> FALSE]
      [] OTHER                           -> [ok |-> FALSE, b |-> FALSE]

\* flag.Parse: the words are read from the left until one is no flag; -name
\* and --name are the same; a bool flag needs no value, a string flag takes
\* the text after "=" or else the next word; an unknown flag is an error
RECURSIVE ParseFlags(_, _)
ParseFlags(words, fs) ==
    IF words = <<>> THEN fs
    ELSE LET w == Head(words)
         IN  IF Len(w) < 2 \/ w[1] # "-" THEN fs
             ELSE LET body == IF w[2] = "-" THEN SubSeq(w, 3, Len(w))
                                            ELSE SubSeq(w, 2, Len(w))
                      eq   == IndexEq(body, 1)
                      name == IF eq = 0 THEN body ELSE SubSeq(body, 1, eq - 1)
                      val  == IF eq = 0 THEN <<>> ELSE SubSeq(body, eq + 1, Len(body))
                  IN  IF body = <<>> THEN fs
                      ELSE IF name \in BoolFlags
                      THEN IF eq = 0
                           THEN ParseFlags(Tail(words), SetFlag(fs, name, TRUE))
                           ELSE IF ParseBool(val).ok
                           THEN ParseFlags(Tail(words),
                                           SetFlag(fs, name, ParseBool(val).b))
                           ELSE [fs EXCEPT !.err = TRUE]
                      ELSE IF name \in StringFlags
                      THEN IF eq # 0
                           THEN ParseFlags(Tail(words), SetFlag(fs, name, val))
                           ELSE IF Len(words) < 2 THEN [fs EXCEPT !.err = TRUE]
                           ELSE ParseFlags(Tail(Tail(words)),
                                           SetFlag(fs, name, words[2]))
                      ELSE [fs EXCEPT !.err = TRUE]

\* the flag variables hold what flag.Parse read from the command line
Parsed(words) ==
    LET fs == ParseFlags(words, FlagDefaults)
    IN  /\ ~fs.err
        /\ args = words
        /\ typeNames = fs.type
        /\ output = fs.output
        /\ trimPrefix = fs.trimprefix
        /\ lineComment = fs.linecomment
        /\ sqlFlag = fs.sql
        /\ jsonFlag = fs.json
        /\ yamlFlag = fs.yaml
        /\ bitmaskFlag = fs.bitmask

\* a command line that gives the flags in the order of the usage text
\* (type, trimprefix, linecomment, json, yaml, sql, output, bitmask), each
\* only when it differs from its default
ArgsFor(type, prefix, lc, json, yaml, sql, out, bitmask) ==
    (IF type # <<>> THEN <<ValueArg(FlagType, type)>> ELSE <<>>)
    \o (IF prefix # <<>> THEN <<ValueArg(FlagTrimPrefix, prefix)>> ELSE <<>>)
    \o (IF lc THEN <<BoolArg(FlagLineComment)>> ELSE <<>>)
    \o (IF json THEN <<BoolArg(FlagJSON)>> ELSE <<>>)
    \o (IF yaml THEN <<BoolArg(FlagYAML)>> ELSE <<>>)
    \o (IF sql THEN <<BoolArg(FlagSQL)>> ELSE <<>>)
    \o (IF out # <<>> THEN <<ValueArg(FlagOutput, out)>> ELSE <<>>)
    \o (IF bitmask THEN <<BoolArg(FlagBitmask)>> ELSE <<>>)

----------------------------------------------------------------------------
(* The loaded package: what packages.Load hands to processType *)

\* An identifier of a constant with its object in TypesInfo.Defs: the type
\* the checker gave it (an alias is already resolved) and its exact value.
Ident(name, type, val) == [Name |-> name, Type |-> type, Val |-> val]

\* ast.ValueSpec: the names of one line of a const block and its trailing
\* comment; Comment is <<>> (nil) or <<raw>>, raw the text after "//".
ValueSpec(names, comment) == [Names |-> names, Comment |-> comment]

\* ast.GenDecl
GenDecl(tok, specs) == [Tok |-> tok, Specs |-> specs]

\* ast.CommentGroup.Text of a line comment: the marker and one leading space
\* removed, trailing white space removed, a newline added to what is left
CommentText(raw) ==
    LET c    == IF raw # <<>> /\ Head(raw) = " " THEN Tail(raw) ELSE raw
        line == TrimRightSpace(c)
    IN  IF line = <<>> THEN <<>> ELSE line \o <<"\n">>

\* types.Scope.Lookup: the object a package-level name denotes, or "nil".
\* A type name denotes its type; a constant denotes an object of its type.
Range(seq) == { seq[i] : i \in DOMAIN seq }

AllIdents(p) ==
    UNION { UNION { UNION { Range(spec.Names) : spec \in Range(decl.Specs) } :
                    decl \in Range(file) } :
            file \in Range(p.Syntax) }

Lookup(p, name) ==
    IF name \in DOMAIN p.Types THEN [kind |-> "type", Type |-> p.Types[name]]
    ELSE IF \E c \in AllIdents(p) : c.Name = name
    THEN [kind |-> "const",
          Type |-> (CHOOSE c \in AllIdents(p) : c.Name = name).Type]
    ELSE [kind |-> "nil", Type |-> "nil"]

----------------------------------------------------------------------------
(* processType *)

Element(name, value, stringValue) ==
    [Name |-> name, Value |-> value, StringValue |-> stringValue]

\* strings.TrimLeft-like slip: every leading occurrence of the prefix goes
RECURSIVE TrimPrefixAll(_, _)
TrimPrefixAll(s, prefix) ==
    IF prefix # <<>> /\ HasPrefix(s, prefix)
    THEN TrimPrefixAll(TrimPrefix(s, prefix), prefix)
    ELSE s

\* StringValueOf with the prefix removed as often as it leads the name
StringValueOfTrimAll(name, comment, prefix, useComment) ==
    LET trimmed == TrimPrefixAll(name, prefix)
    IN  IF useComment /\ comment # <<>>
        THEN LET text == TrimSpace(CommentText(comment[1]))
             IN  IF text # <<>> THEN text ELSE trimmed
        ELSE trimmed

\* the display string of one constant (main.go 196-208)
StringValueOf(name, comment, prefix, useComment) ==
    LET trimmed == IF prefix # <<>> THEN TrimPrefix(name, prefix) ELSE name
    IN  IF useComment /\ comment # <<>>
        THEN LET text == TrimSpace(CommentText(comment[1]))
             IN  IF text # <<>> THEN text ELSE trimmed
        ELSE trimmed

\* for _, name := range vspec.Names
RECURSIVE ElementsOfNames(_, _, _, _, _)
ElementsOfNames(names, comment, targetType, prefix, useComment) ==
    IF names = <<>> THEN <<>>
    ELSE LET c == Head(names)
             rest == ElementsOfNames(Tail(names), comment, targetType,
                                     prefix, useComment)
         IN  IF c.Type # targetType THEN rest
             ELSE <<Element(c.Name, c.Val,
                            StringValueOf(c.Name, comment, prefix, useComment))>>
                  \o rest

\* ElementsOfSpecs walking the lines of a block from the last to the first
RECURSIVE ElementsOfSpecsReversed(_, _, _, _)
ElementsOfSpecsReversed(specs, targetType, prefix, useComment) ==
    IF specs = <<>> THEN <<>>
    ELSE ElementsOfSpecsReversed(Tail(specs), targetType, prefix, useComment)
         \o ElementsOfNames(Head(specs).Names, Head(specs).Comment, targetType,
                            prefix, useComment)

\* for _, spec := range gd.Specs
RECURSIVE ElementsOfSpecs(_, _, _, _)
ElementsOfSpecs(specs, targetType, prefix, useComment) ==
    IF specs = <<>> THEN <<>>
    ELSE ElementsOfNames(Head(specs).Names, Head(specs).Comment, targetType,
                         prefix, useComment)
         \o ElementsOfSpecs(Tail(specs), targetType, prefix, useComment)

\* for _, decl := range file.Decls, skipping what is no const declaration
RECURSIVE ElementsOfDecls(_, _, _, _)
ElementsOfDecls(decls, targetType, prefix, useComment) ==
    IF decls = <<>> THEN <<>>
    ELSE (IF Head(decls).Tok # "const" THEN <<>>
          ELSE ElementsOfSpecs(Head(decls).Specs, targetType, prefix, useComment))
         \o ElementsOfDecls(Tail(decls), targetType, prefix, useComment)

\* for _, file := range pkg.Syntax
RECURSIVE ElementsOfFiles(_, _, _, _)
ElementsOfFiles(files, targetType, prefix, useComment) ==
    IF files = <<>> THEN <<>>
    ELSE ElementsOfDecls(Head(files), targetType, prefix, useComment)
         \o ElementsOfFiles(Tail(files), targetType, prefix, useComment)

\* processType(pkg, typeName): the elements, or the error "type not found"
processType(p, typeName, prefix, useComment) ==
    LET obj == Lookup(p, typeName)
    IN  IF obj.kind = "nil"
        THEN [err |-> "type not found", elements |-> <<>>]
        ELSE [err |-> "nil",
              elements |-> ElementsOfFiles(p.Syntax, obj.Type, prefix, useComment)]

----------------------------------------------------------------------------
(* main *)

\* Types without the sort: the names in the order they were given
TypesAsGiven(flag) ==
    LET parts == Split(flag)
    IN  [i \in DOMAIN parts |-> TrimSpace(parts[i])]

\* types := strings.Split(*typeNames, ","), each trimmed, then sorted
Types(flag) ==
    LET parts == Split(flag)
    IN  SortStrings([i \in DOMAIN parts |-> TrimSpace(parts[i])])

\* the loop over the types going on after a type that cannot be resolved
RECURSIVE ProcessAllSkipping(_, _, _, _, _)
ProcessAllSkipping(p, types, prefix, useComment, done) ==
    IF types = <<>> THEN [fatal |-> "none", elements |-> done]
    ELSE LET r == processType(p, Head(types), prefix, useComment)
         IN  ProcessAllSkipping(p, Tail(types), prefix, useComment,
                                [t \in DOMAIN done \cup {Head(types)} |->
                                    IF t = Head(types) THEN r.elements ELSE done[t]])

\* the loop over the types (main.go 80-90): stops at the first type that is
\* not found or has no constants
RECURSIVE ProcessAll(_, _, _, _, _)
ProcessAll(p, types, prefix, useComment, done) ==
    IF types = <<>> THEN [fatal |-> "none", elements |-> done]
    ELSE LET r == processType(p, Head(types), prefix, useComment)
         IN  IF r.err # "nil"
             THEN [fatal |-> "Failed to process type", elements |-> done]
             ELSE IF Len(r.elements) = 0
             THEN [fatal |-> "No constants found", elements |-> done]
             ELSE ProcessAll(p, Tail(types), prefix, useComment,
                             [t \in DOMAIN done \cup {Head(types)} |->
                                 IF t = Head(types) THEN r.elements ELSE done[t]])

EmptyMap == [t \in {} |-> <<>>]

\* main.go 36-39: no type given
Usage ==
    /\ pc = "start"
    /\ Len(typeNames) = 0
    /\ pc' = "usage"
    /\ UNCHANGED <<flagVars, allElements, genVars, tables, recv, call>>

\* main.go 41-90: the types are split, trimmed, sorted and processed
ProcessTypes ==
    /\ pc = "start"
    /\ Len(typeNames) # 0
    /\ LET r == ProcessAll(pkg, Types(typeNames), trimPrefix, lineComment, EmptyMap)
       IN  /\ allElements' = r.elements
           /\ pc' = IF r.fatal = "none" THEN "resolved" ELSE "fatal"
    /\ UNCHANGED <<flagVars, genVars, tables, recv, call>>

----------------------------------------------------------------------------
(* main: the output file name and the command of the header *)

\* strings.ToLower on the letters of the model
ToLower(s) ==
    [k \in DOMAIN s |->
        CASE s[k] = "A" -> "a" [] s[k] = "B" -> "b" [] s[k] = "P" -> "p"
          [] s[k] = "T" -> "t" [] s[k] = "U" -> "u" [] s[k] = "X" -> "x"
          [] OTHER -> s[k]]

EnumerGoSuffix == <<"_", "e", "n", "u", "m", "e", "r", ".", "g", "o">>
FlagsGenGo == <<"f", "l", "a", "g", "s", "_", "g", "e", "n", ".", "g", "o">>
EnumsGenGo == <<"e", "n", "u", "m", "s", "_", "g", "e", "n", ".", "g", "o">>

\* OutputName with the type name as it was given
OutputNameAsGiven(types, out, bitmask) ==
    IF out # <<>> THEN out
    ELSE IF Len(types) = 1 THEN types[1] \o EnumerGoSuffix
    ELSE IF bitmask THEN FlagsGenGo
    ELSE EnumsGenGo

\* main.go 47-57
OutputName(types, out, bitmask) ==
    IF out # <<>> THEN out
    ELSE IF Len(types) = 1 THEN ToLower(types[1]) \o EnumerGoSuffix
    ELSE IF bitmask THEN FlagsGenGo
    ELSE EnumsGenGo

\* strings.Join
RECURSIVE Join(_, _)
Join(parts, sep) ==
    IF parts = <<>> THEN <<>>
    ELSE IF Len(parts) = 1 THEN parts[1]
    ELSE parts[1] \o sep \o Join(Tail(parts), sep)

\* func buildCommandString, reading the flag variables given as fs
buildCommandString(types, fs) ==
    Join(<<<<"e", "n", "u", "m", "e", "r">>,
           ValueArg(FlagType, Join(types, <<",">>))>>
         \o (IF fs.trimprefix # <<>>
             THEN <<ValueArg(FlagTrimPrefix, fs.trimprefix)>> ELSE <<>>)
         \o (IF fs.linecomment THEN <<BoolArg(FlagLineComment)>> ELSE <<>>)
         \o (IF fs.json THEN <<BoolArg(FlagJSON)>> ELSE <<>>)
         \o (IF fs.yaml THEN <<BoolArg(FlagYAML)>> ELSE <<>>)
         \o (IF fs.sql THEN <<BoolArg(FlagSQL)>> ELSE <<>>)
         \o (IF fs.output # <<>>
             THEN <<ValueArg(FlagOutput, fs.output)>> ELSE <<>>)
         \o (IF fs.bitmask THEN <<BoolArg(FlagBitmask)>> ELSE <<>>),
         <<" ">>)

\* the flag variables of the state, as flag.Parse left them
Flags ==
    [type |-> typeNames, output |-> output, trimprefix |-> trimPrefix,
     linecomment |-> lineComment, sql |-> sqlFlag, json |-> jsonFlag,
     yaml |-> yamlFlag, bitmask |-> bitmaskFlag, err |-> FALSE]

\* main.go 96-106
TemplateData(p, types, elems, fs) ==
    [PackageName |-> p.Name, Types |-> types, Elements |-> elems,
     TrimPrefix |-> fs.trimprefix, SQL |-> fs.sql, JSON |-> fs.json,
     YAML |-> fs.yaml, Bitmask |-> fs.bitmask,
     Command |-> buildCommandString(types, fs)]

----------------------------------------------------------------------------
(* generateCode *)

\* Imports with "encoding/json" under the YAML toggle
ImportsJSONUnderYAML(data) ==
    (IF data.SQL THEN <<"database/sql/driver">> ELSE <<>>)
    \o <<"fmt">>
    \o (IF data.YAML THEN <<"encoding/json">> ELSE <<>>)
    \o (IF data.YAML THEN <<"gopkg.in/yaml.v3">> ELSE <<>>)

\* the import block of the template (main.go 258-269)
Imports(data) ==
    (IF data.SQL THEN <<"database/sql/driver">> ELSE <<>>)
    \o <<"fmt">>
    \o (IF data.JSON THEN <<"encoding/json">> ELSE <<>>)
    \o (IF data.YAML THEN <<"gopkg.in/yaml.v3">> ELSE <<>>)

\* the packages the body or the signature of a declaration of the template
\* refers to (main.go 294-438): fmt.Sprintf, fmt.Errorf, json.Marshal,
\* json.Unmarshal, *yaml.Node, driver.Value
PackagesUsed(name) ==
    CASE name = "String"        -> {"fmt"}
      [] name = "TypeString"    -> {"fmt"}
      [] name = "MarshalJSON"   -> {"encoding/json"}
      [] name = "UnmarshalJSON" -> {"encoding/json", "fmt"}
      [] name = "UnmarshalYAML" -> {"gopkg.in/yaml.v3", "fmt"}
      [] name = "Scan"          -> {"fmt"}
      [] name = "Value"         -> {"database/sql/driver"}
      [] OTHER                  -> {}

\* one declaration of the rendered file: the type it is rendered for, what
\* it declares, and for a table the elements its literal lists
Decl(typeName, name, elements) ==
    [Type |-> typeName, Decl |-> name, Elements |-> elements]

\* TypeBlock with the SQL group ahead of the JSON and YAML groups
TypeBlockSQLFirst(data, typeName) ==
    LET elements == data.Elements[typeName]
        D(name)  == Decl(typeName, name, <<>>)
    IN  <<Decl(typeName, "_Map", elements),
          Decl(typeName, "_Values", elements),
          Decl(typeName, "_NameToValueMap", elements),
          D("String"), D("Values"), D("TypeString"), D("Valid")>>
        \o (IF data.Bitmask
            THEN <<D("Has"), D("HasAny"), D("HasAll"),
                   D("Set"), D("Clear"), D("Toggle")>>
            ELSE <<>>)
        \o (IF data.SQL THEN <<D("Scan"), D("Value")>> ELSE <<>>)
        \o (IF data.JSON THEN <<D("MarshalJSON"), D("UnmarshalJSON")>> ELSE <<>>)
        \o (IF data.YAML THEN <<D("MarshalYAML"), D("UnmarshalYAML")>> ELSE <<>>)

\* the body of {{range $typeName := .Types}} for one type (main.go 271-440)
TypeBlock(data, typeName) ==
    LET elements == data.Elements[typeName]
        D(name)  == Decl(typeName, name, <<>>)
    IN  <<Decl(typeName, "_Map", elements),
          Decl(typeName, "_Values", elements),
          Decl(typeName, "_NameToValueMap", elements),
          D("String"), D("Values"), D("TypeString"), D("Valid")>>
        \o (IF data.Bitmask
            THEN <<D("Has"), D("HasAny"), D("HasAll"),
                   D("Set"), D("Clear"), D("Toggle")>>
            ELSE <<>>)
        \o (IF data.JSON THEN <<D("MarshalJSON"), D("UnmarshalJSON")>> ELSE <<>>)
        \o (IF data.YAML THEN <<D("MarshalYAML"), D("UnmarshalYAML")>> ELSE <<>>)
        \o (IF data.SQL THEN <<D("Scan"), D("Value")>> ELSE <<>>)

\* {{range $typeName := .Types}} ... {{end}}
RECURSIVE TypeBlocks(_, _)
TypeBlocks(data, types) ==
    IF types = <<>> THEN <<>>
    ELSE TypeBlock(data, Head(types)) \o TypeBlocks(data, Tail(types))

\* tmpl.Execute(&buf, data): the rendered file
Render(data) ==
    [Command |-> data.Command, PackageName |-> data.PackageName,
     Imports |-> Imports(data), Decls |-> TypeBlocks(data, data.Types)]

NoFile == [Name |-> <<>>, Content |-> "none", Formatted |-> FALSE]

\* a character that ends or breaks the "..." literal the template puts it in
BreaksLiteral(c) == c \in {"\"", "\n"}

\* the character a backslash escape of a Go string literal denotes: \n, \t,
\* \\ and \" of the simple escapes; "invalid" for a character that starts no
\* escape.  (The numeric escapes need digits after the backslash, which no
\* comment of the model has.)
EscapeOf(c) ==
    CASE c = "n"  -> "\n"
      [] c = "t"  -> "\t"
      [] c = "\\" -> "\\"
      [] c = "\"" -> "\""
      [] OTHER    -> "invalid"

\* the text between the quotes of "{{.StringValue}}" as the Go scanner reads
\* it: the template (text/template) writes the display string as it is, so
\* a backslash starts an escape and a bare double quote or a line end stops
\* the literal.  ok is FALSE when what is written is no string literal.
RECURSIVE Interpreted(_)
Interpreted(s) ==
    IF s = <<>> THEN [ok |-> TRUE, text |-> <<>>]
    ELSE IF BreaksLiteral(Head(s)) THEN [ok |-> FALSE, text |-> <<>>]
    ELSE IF Head(s) = "\\"
    THEN IF Len(s) < 2 \/ EscapeOf(s[2]) = "invalid"
         THEN [ok |-> FALSE, text |-> <<>>]
         ELSE LET r == Interpreted(SubSeq(s, 3, Len(s)))
              IN  [ok |-> r.ok, text |-> <<EscapeOf(s[2])>> \o r.text]
    ELSE LET r == Interpreted(Tail(s))
         IN  [ok |-> r.ok, text |-> <<Head(s)>> \o r.text]

\* gofmt parses the file: every "{{.StringValue}}" must be a string literal
SyntaxOK(elems) ==
    \A t \in DOMAIN elems : \A i \in DOMAIN elems[t] :
        Interpreted(elems[t][i].StringValue).ok

\* main.go 226-241: the template is executed and the file written under the
\* output name; os.WriteFile may fail
WriteFile ==
    /\ pc = "resolved"
    /\ \E ok \in BOOLEAN :
          IF ok
          THEN /\ artifact' = "written"
               /\ outFile' =
                    [Name |-> OutputName(Types(typeNames), output, bitmaskFlag),
                     Content |-> Render(TemplateData(pkg, Types(typeNames),
                                                     allElements, Flags)),
                     Formatted |-> FALSE]
               /\ events' = Append(events, "write")
               /\ pc' = "written"
          ELSE /\ artifact' = artifact
               /\ outFile' = outFile
               /\ events' = Append(events, "write failed")
               /\ pc' = "fatal"
    /\ UNCHANGED <<flagVars, allElements, tables, recv, call>>

\* Format that deletes the file when gofmt fails
FormatRemovesFile ==
    /\ pc = "written"
    /\ \E ok \in BOOLEAN :
          IF ok /\ SyntaxOK(allElements)
          THEN /\ artifact' = "formatted"
               /\ outFile' = [outFile EXCEPT !.Formatted = TRUE]
               /\ events' = Append(events, "gofmt")
               /\ pc' = "done"
          ELSE /\ artifact' = "none"
               /\ outFile' = NoFile
               /\ events' = Append(events, "gofmt failed")
               /\ pc' = "fatal"
    /\ UNCHANGED <<flagVars, allElements, tables, recv, call>>

\* main.go 243-249: gofmt -w on the written file; it fails when gofmt cannot
\* be run or cannot parse the file, and then leaves the file as it is
Format ==
    /\ pc = "written"
    /\ \E ok \in BOOLEAN :
          IF ok /\ SyntaxOK(allElements)
          THEN /\ artifact' = "formatted"
               /\ outFile' = [outFile EXCEPT !.Formatted = TRUE]
               /\ events' = Append(events, "gofmt")
               /\ pc' = "done"
          ELSE /\ artifact' = artifact
               /\ outFile' = outFile
               /\ events' = Append(events, "gofmt failed")
               /\ pc' = "fatal"
    /\ UNCHANGED <<flagVars, allElements, tables, recv, call>>

----------------------------------------------------------------------------
(* The generated file, compiled *)

\* the value the compiler gives the constant identifier {{.Name}}
ConstVal(p, name) == (CHOOSE c \in AllIdents(p) : c.Name = name).Val

\* var _TMap = map[T]string{ {{.Name}}: "{{.StringValue}}", ... }
MapLiteral(p, elems) ==
    [i \in DOMAIN elems |->
        [key |-> ConstVal(p, elems[i].Name),
         val |-> Interpreted(elems[i].StringValue).text]]

\* var _TValues = []T{ {{.Name}}, ... }
ValuesLiteral(p, elems) ==
    [i \in DOMAIN elems |-> ConstVal(p, elems[i].Name)]

\* NameToValueLiteral keyed by the declared name instead of the display string
NameToValueLiteralByName(p, elems) ==
    [i \in DOMAIN elems |->
        [key |-> elems[i].Name, val |-> ConstVal(p, elems[i].Name)]]

\* var _TNameToValueMap = map[string]T{ "{{.StringValue}}": {{.Name}}, ... }
NameToValueLiteral(p, elems) ==
    [i \in DOMAIN elems |->
        [key |-> Interpreted(elems[i].StringValue).text,
         val |-> ConstVal(p, elems[i].Name)]]

\* Go rejects a map literal with two equal constant keys
DistinctKeys(lit) ==
    \A i, j \in DOMAIN lit : i # j => lit[i].key # lit[j].key

\* the map a literal with distinct keys denotes
MapOfLiteral(lit) ==
    [k \in { lit[i].key : i \in DOMAIN lit } |->
        lit[CHOOSE i \in DOMAIN lit : lit[i].key = k].val]

\* the generated file compiles: every requested name is a type, no type is
\* given its methods twice (by a repeated name or by an alias of it), and no
\* map literal repeats a key
Compiles(p, types, elems) ==
    /\ \A i, j \in DOMAIN types : i # j => types[i] # types[j]
    /\ \A i, j \in DOMAIN types :
          i # j => Lookup(p, types[i]).Type # Lookup(p, types[j]).Type
    /\ \A i \in DOMAIN types :
          /\ Lookup(p, types[i]).kind = "type"
          /\ DistinctKeys(MapLiteral(p, elems[types[i]]))
          /\ DistinctKeys(NameToValueLiteral(p, elems[types[i]]))

TablesOf(p, elems) ==
    [Map            |-> MapOfLiteral(MapLiteral(p, elems)),
     Values         |-> ValuesLiteral(p, elems),
     NameToValueMap |-> MapOfLiteral(NameToValueLiteral(p, elems))]

\* go build / go test of the package with the generated file
\* (enumer_test.go 99-108)
Build ==
    /\ pc = "done"
    /\ IF Compiles(pkg, Types(typeNames), allElements)
       THEN /\ pc' = "running"
            /\ tables' = [t \in DOMAIN allElements |-> TablesOf(pkg, allElements[t])]
       ELSE /\ pc' = "build failed"
            /\ tables' = tables
    /\ UNCHANGED <<flagVars, allElements, genVars, recv, call>>

----------------------------------------------------------------------------
(* The base group of generated methods *)

NotValidText ==
    <<" ", "i", "s", " ", "n", "o", "t", " ", "a", " ", "v", "a", "l", "i", "d", " ">>

\* String with the bare number as the fallback text
StringBareNumber(tb, typeName, i) ==
    IF i \in DOMAIN tb.Map THEN tb.Map[i] ELSE Decimal(i)

\* func (i T) String() string
String(tb, typeName, i) ==
    IF i \in DOMAIN tb.Map THEN tb.Map[i]
    ELSE typeName \o <<"(">> \o Decimal(i) \o <<")">>

\* func TValues() []T
Values(tb) == tb.Values

ToUpper(s) ==
    [k \in DOMAIN s |-> CASE s[k] = "a" -> "A" [] s[k] = "b" -> "B" [] OTHER -> s[k]]

\* TypeString matching without regard to case (strings.EqualFold)
TypeStringFold(tb, typeName, s) ==
    IF \E key \in DOMAIN tb.NameToValueMap : ToUpper(key) = ToUpper(s)
    THEN [val |-> tb.NameToValueMap[CHOOSE key \in DOMAIN tb.NameToValueMap :
                                        ToUpper(key) = ToUpper(s)],
          ok |-> TRUE, err |-> <<>>]
    ELSE [val |-> 0, ok |-> FALSE, err |-> s \o NotValidText \o typeName]

\* func TString(s string) (T, error); err is <<>> for nil
TypeString(tb, typeName, s) ==
    IF s \in DOMAIN tb.NameToValueMap
    THEN [val |-> tb.NameToValueMap[s], ok |-> TRUE, err |-> <<>>]
    ELSE [val |-> 0, ok |-> FALSE, err |-> s \o NotValidText \o typeName]

\* Valid as a range check between the least and the greatest declared value
ValidInRange(tb, i) ==
    \E lo, hi \in DOMAIN tb.Map : lo <= i /\ i <= hi

\* func (i T) Valid() bool
Valid(tb, i) == i \in DOMAIN tb.Map

----------------------------------------------------------------------------
(* A client program calling the base group *)

NoCall == [op |-> "none"]

\* strings a client passes to TString
ParseInputs ==
    { <<>>, <<"A">>, <<"a">>, <<"P">>, <<"P", "A">>, <<"P", "P", "A">>,
      <<"P", "a">>, <<"b">> }

CallString ==
    /\ pc = "running"
    /\ \E t \in DOMAIN tables, i \in 0..MaxVal :
          call' = [op |-> "String", type |-> t, recv |-> i,
                   ret |-> String(tables[t], t, i)]
    /\ UNCHANGED <<flagVars, pc, allElements, genVars, tables, recv>>

CallValues ==
    /\ pc = "running"
    /\ \E t \in DOMAIN tables :
          call' = [op |-> "Values", type |-> t, ret |-> Values(tables[t])]
    /\ UNCHANGED <<flagVars, pc, allElements, genVars, tables, recv>>

CallTypeString ==
    /\ pc = "running"
    /\ \E t \in DOMAIN tables, s \in ParseInputs :
          call' = [op |-> "TypeString", type |-> t, arg |-> s,
                   ret |-> TypeString(tables[t], t, s)]
    /\ UNCHANGED <<flagVars, pc, allElements, genVars, tables, recv>>

\* strings a client parses in a program whose display strings came from
\* comments: the comments' texts as written and as a Go literal reads them
LiteralInputs ==
    { <<>>, <<"A">>, <<"P">>,
      <<"a", "\"", "b">>,
      <<"a", "\\", "n", "b">>, <<"a", "\n", "b">>,
      <<"\\", "\"", "a", "\\", "\"">>, <<"\"", "a", "\"">> }

CallTypeStringDisplayed ==
    /\ pc = "running"
    /\ \E t \in DOMAIN tables, s \in LiteralInputs :
          call' = [op |-> "TypeString", type |-> t, arg |-> s,
                   ret |-> TypeString(tables[t], t, s)]
    /\ UNCHANGED <<flagVars, pc, allElements, genVars, tables, recv>>

\* a caller assigns to an element of the slice TValues() returned to it:
\* TValues returns _TValues itself (main.go 303), not a copy, so the slice
\* the caller holds and the package's table share their elements
WriteValues ==
    /\ pc = "running"
    /\ call.op \in {"Values", "WriteValues"}
    /\ \E k \in DOMAIN tables[call.type].Values, v \in 0..MaxVal :
          /\ tables' = [tables EXCEPT ![call.type].Values[k] = v]
          /\ call' = [op |-> "WriteValues", type |-> call.type,
                      index |-> k, val |-> v]
    /\ UNCHANGED <<flagVars, pc, allElements, genVars, recv>>

CallValid ==
    /\ pc = "running"
    /\ \E t \in DOMAIN tables, i \in 0..MaxVal :
          call' = [op |-> "Valid", type |-> t, recv |-> i,
                   ret |-> Valid(tables[t], i)]
    /\ UNCHANGED <<flagVars, pc, allElements, genVars, tables, recv>>

----------------------------------------------------------------------------
(* The bitmask group of generated methods ({{if $.Bitmask}}) *)

\* Go's & | ^ &^ on the non-negative values of the model
RECURSIVE BitAnd(_, _)
BitAnd(a, b) ==
    IF a = 0 \/ b = 0 THEN 0
    ELSE (a % 2) * (b % 2) + 2 * BitAnd(a \div 2, b \div 2)

RECURSIVE BitOr(_, _)
BitOr(a, b) ==
    IF a = 0 THEN b
    ELSE IF b = 0 THEN a
    ELSE (IF a % 2 = 1 \/ b % 2 = 1 THEN 1 ELSE 0) + 2 * BitOr(a \div 2, b \div 2)

RECURSIVE BitXor(_, _)
BitXor(a, b) ==
    IF a = 0 THEN b
    ELSE IF b = 0 THEN a
    ELSE (IF a % 2 # b % 2 THEN 1 ELSE 0) + 2 * BitXor(a \div 2, b \div 2)

RECURSIVE BitAndNot(_, _)
BitAndNot(a, b) ==
    IF a = 0 THEN 0
    ELSE IF b = 0 THEN a
    ELSE (IF a % 2 = 1 /\ b % 2 = 0 THEN 1 ELSE 0) + 2 * BitAndNot(a \div 2, b \div 2)

\* Has asking for every bit of the flag
HasEveryBit(i, flag) == BitAnd(i, flag) = flag

\* func (i T) Has(flag T) bool
Has(i, flag) == BitAnd(i, flag) # 0

\* func (i T) HasAny(flags ...T) bool
RECURSIVE HasAny(_, _)
HasAny(i, flags) ==
    IF flags = <<>> THEN FALSE
    ELSE IF BitAnd(i, Head(flags)) # 0 THEN TRUE
    ELSE HasAny(i, Tail(flags))

\* func (i T) HasAll(flags ...T) bool
RECURSIVE HasAll(_, _)
HasAll(i, flags) ==
    IF flags = <<>> THEN TRUE
    ELSE IF BitAnd(i, Head(flags)) = 0 THEN FALSE
    ELSE HasAll(i, Tail(flags))

\* func (i T) Set(flags ...T) T
RECURSIVE Set(_, _)
Set(i, flags) ==
    IF flags = <<>> THEN i ELSE Set(BitOr(i, Head(flags)), Tail(flags))

\* Clear with & in place of &^
RECURSIVE ClearAsAnd(_, _)
ClearAsAnd(i, flags) ==
    IF flags = <<>> THEN i ELSE ClearAsAnd(BitAnd(i, Head(flags)), Tail(flags))

\* func (i T) Clear(flags ...T) T
RECURSIVE Clear(_, _)
Clear(i, flags) ==
    IF flags = <<>> THEN i ELSE Clear(BitAndNot(i, Head(flags)), Tail(flags))

\* Toggle with | in place of ^
RECURSIVE ToggleAsSet(_, _)
ToggleAsSet(i, flags) ==
    IF flags = <<>> THEN i ELSE ToggleAsSet(BitOr(i, Head(flags)), Tail(flags))

\* func (i T) Toggle(flags ...T) T
RECURSIVE Toggle(_, _)
Toggle(i, flags) ==
    IF flags = <<>> THEN i ELSE Toggle(BitXor(i, Head(flags)), Tail(flags))

----------------------------------------------------------------------------
(* A client program calling the bitmask group on its variable recv *)

\* the flags a client passes: the declared constants and the zero value
FlagArgs == {0} \cup UNION { Range(tables[t].Values) : t \in DOMAIN tables }

\* argument lists of a variadic call
FlagLists == UNION { [1..n -> FlagArgs] : n \in 0..MaxFlags }

\* the methods exist only in a file generated with -bitmask
HasBitmask == pc = "running" /\ bitmaskFlag /\ DOMAIN tables # {}

\* the client just stored the result of the same call with the same flags
Repeats(op, flags) ==
    /\ call.op = "Assign"
    /\ call.of.op = op
    /\ call.of.flags = flags

\* the receiver of the first of two chained calls
FirstRecv(op, flags) == IF Repeats(op, flags) THEN call.of.recv ELSE recv

CallHas ==
    /\ HasBitmask
    /\ \E flag \in FlagArgs :
          call' = [op |-> "Has", recv |-> recv, flag |-> flag,
                   ret |-> Has(recv, flag)]
    /\ UNCHANGED <<flagVars, pc, allElements, genVars, tables, recv>>

CallHasAny ==
    /\ HasBitmask
    /\ \E flags \in FlagLists :
          call' = [op |-> "HasAny", recv |-> recv, flags |-> flags,
                   ret |-> HasAny(recv, flags)]
    /\ UNCHANGED <<flagVars, pc, allElements, genVars, tables, recv>>

CallHasAll ==
    /\ HasBitmask
    /\ \E flags \in FlagLists :
          call' = [op |-> "HasAll", recv |-> recv, flags |-> flags,
                   ret |-> HasAll(recv, flags)]
    /\ UNCHANGED <<flagVars, pc, allElements, genVars, tables, recv>>

\* x := recv.Set(flags...): a value receiver, so recv itself is left alone
CallSet ==
    /\ HasBitmask
    /\ \E flags \in FlagLists :
          call' = [op |-> "Set", recv |-> recv, flags |-> flags,
                   ret |-> Set(recv, flags),
                   twice |-> Repeats("Set", flags),
                   first |-> FirstRecv("Set", flags)]
    /\ UNCHANGED <<flagVars, pc, allElements, genVars, tables, recv>>

CallClear ==
    /\ HasBitmask
    /\ \E flags \in FlagLists :
          call' = [op |-> "Clear", recv |-> recv, flags |-> flags,
                   ret |-> Clear(recv, flags),
                   twice |-> Repeats("Clear", flags),
                   first |-> FirstRecv("Clear", flags)]
    /\ UNCHANGED <<flagVars, pc, allElements, genVars, tables, recv>>

CallToggle ==
    /\ HasBitmask
    /\ \E flags \in FlagLists :
          call' = [op |-> "Toggle", recv |-> recv, flags |-> flags,
                   ret |-> Toggle(recv, flags),
                   twice |-> Repeats("Toggle", flags),
                   first |-> FirstRecv("Toggle", flags)]
    /\ UNCHANGED <<flagVars, pc, allElements, genVars, tables, recv>>

\* recv = <result of the last Set, Clear or Toggle>
Assign ==
    /\ pc = "running"
    /\ call.op \in {"Set", "Clear", "Toggle"}
    /\ recv' = call.ret
    /\ call' = [op |-> "Assign",
                of |-> [op |-> call.op, recv |-> call.recv, flags |-> call.flags]]
    /\ UNCHANGED <<flagVars, pc, allElements, genVars, tables>>

\* recv = T(v): a conversion of an integer, declared or not
AssignValue ==
    /\ pc = "running"
    /\ \E v \in 0..MaxVal : recv' = v
    /\ call' = NoCall
    /\ UNCHANGED <<flagVars, pc, allElements, genVars, tables>>

----------------------------------------------------------------------------
(* The JSON and YAML groups of generated methods ({{if $.JSON}}, {{if $.YAML}}) *)

\* encoding/json: the characters of a string as they stand inside "..."
RECURSIVE JSONEscape(_)
JSONEscape(s) ==
    IF s = <<>> THEN <<>>
    ELSE (CASE Head(s) = "\"" -> <<"\\", "\"">>
            [] Head(s) = "\\" -> <<"\\", "\\">>
            [] Head(s) = "\n" -> <<"\\", "n">>
            [] OTHER -> <<Head(s)>>)
         \o JSONEscape(Tail(s))

\* json.Marshal of a Go string: never fails
JSONMarshalString(s) == <<"\"">> \o JSONEscape(s) \o <<"\"">>

\* the inside of a JSON string literal read back; ok is FALSE when a quote
\* is not escaped or an escape is not one of \" \\ \n
RECURSIVE JSONUnescape(_)
JSONUnescape(body) ==
    IF body = <<>> THEN [ok |-> TRUE, s |-> <<>>]
    ELSE IF Head(body) = "\"" \/ Head(body) = "\n" THEN [ok |-> FALSE, s |-> <<>>]
    ELSE IF Head(body) = "\\"
    THEN IF Len(body) < 2 \/ body[2] \notin {"\"", "\\", "n"}
         THEN [ok |-> FALSE, s |-> <<>>]
         ELSE LET rest == JSONUnescape(SubSeq(body, 3, Len(body)))
                  c    == IF body[2] = "n" THEN "\n" ELSE body[2]
              IN  [ok |-> rest.ok, s |-> <<c>> \o rest.s]
    ELSE LET rest == JSONUnescape(Tail(body))
         IN  [ok |-> rest.ok, s |-> <<Head(body)>> \o rest.s]

JSONNull == <<"n", "u", "l", "l">>

\* json.Unmarshal(data, &s) for a Go string s that holds "": a string
\* literal is stored, null has no effect and is no error, every other value
\* (a number, true, ...) and every text that is no JSON is an error
JSONUnmarshalString(data) ==
    IF Len(data) >= 2 /\ data[1] = "\"" /\ data[Len(data)] = "\""
    THEN LET r == JSONUnescape(SubSeq(data, 2, Len(data) - 1))
         IN  [ok |-> r.ok, s |-> r.s]
    ELSE IF data = JSONNull THEN [ok |-> TRUE, s |-> <<>>]
    ELSE [ok |-> FALSE, s |-> <<>>]

ShouldBeStringText ==
    <<" ", "s", "h", "o", "u", "l", "d", " ", "b", "e", " ", "a", " ",
      "s", "t", "r", "i", "n", "g", ",", " ", "g", "o", "t", " ">>

\* func (i T) MarshalJSON() ([]byte, error)
MarshalJSON(tb, typeName, i) ==
    [data |-> JSONMarshalString(String(tb, typeName, i)), err |-> <<>>]

\* func (i *T) UnmarshalJSON(data []byte) error: the new value of *i (old
\* when it is not assigned) and the error, <<>> for nil
UnmarshalJSON(tb, typeName, old, data) ==
    LET d == JSONUnmarshalString(data)
    IN  IF ~d.ok
        THEN [i |-> old, err |-> typeName \o ShouldBeStringText \o data]
        ELSE LET r == TypeString(tb, typeName, d.s)
             IN  [i |-> r.val, err |-> r.err]

\* a yaml.Node: a scalar with its tag and text, or a mapping
YAMLScalar(tag, value) == [Kind |-> "scalar", Tag |-> tag, Value |-> value]

YAMLMapping == [Kind |-> "mapping", Tag |-> "!!map", Value |-> <<>>]

\* node.Decode(&s) for a Go string s: a scalar that is a string, an integer
\* or a boolean gives its text; a mapping cannot be decoded into a string
YAMLDecodeString(node) ==
    IF node.Kind = "scalar" /\ node.Tag \in {"!!str", "!!int", "!!bool"}
    THEN [ok |-> TRUE, s |-> node.Value]
    ELSE [ok |-> FALSE, s |-> <<>>]

\* func (i T) MarshalYAML() (any, error)
MarshalYAML(tb, typeName, i) ==
    [data |-> String(tb, typeName, i), err |-> <<>>]

\* func (i *T) UnmarshalYAML(node *yaml.Node) error
UnmarshalYAML(tb, typeName, old, node) ==
    LET d == YAMLDecodeString(node)
    IN  IF ~d.ok
        THEN [i |-> old, err |-> typeName \o ShouldBeStringText \o node.Value]
        ELSE LET r == TypeString(tb, typeName, d.s)
             IN  [i |-> r.val, err |-> r.err]

----------------------------------------------------------------------------
(* A client program calling the JSON and YAML groups *)

\* JSON texts a client decodes: strings, null, a number, true, and no JSON
JSONInputs ==
    { JSONMarshalString(s) : s \in ParseInputs }
      \cup { JSONNull, <<"1">>, <<"t", "r", "u", "e">>, <<"A">>, <<"\"", "A">> }

\* YAML nodes a client decodes
YAMLInputs ==
    { YAMLScalar("!!str", s) : s \in ParseInputs }
      \cup { YAMLScalar("!!int", <<"1">>), YAMLMapping }

CallMarshalJSON ==
    /\ pc = "running"
    /\ jsonFlag
    /\ \E t \in DOMAIN tables, i \in 0..MaxVal :
          call' = [op |-> "MarshalJSON", type |-> t, recv |-> i,
                   ret |-> MarshalJSON(tables[t], t, i)]
    /\ UNCHANGED <<flagVars, pc, allElements, genVars, tables, recv>>

CallUnmarshalJSON ==
    /\ pc = "running"
    /\ jsonFlag
    /\ \E t \in DOMAIN tables, data \in JSONInputs :
          LET r == UnmarshalJSON(tables[t], t, recv, data)
          IN  /\ recv' = r.i
              /\ call' = [op |-> "UnmarshalJSON", type |-> t, old |-> recv,
                          arg |-> data, err |-> r.err]
    /\ UNCHANGED <<flagVars, pc, allElements, genVars, tables>>

CallMarshalYAML ==
    /\ pc = "running"
    /\ yamlFlag
    /\ \E t \in DOMAIN tables, i \in 0..MaxVal :
          call' = [op |-> "MarshalYAML", type |-> t, recv |-> i,
                   ret |-> MarshalYAML(tables[t], t, i)]
    /\ UNCHANGED <<flagVars, pc, allElements, genVars, tables, recv>>

CallUnmarshalYAML ==
    /\ pc = "running"
    /\ yamlFlag
    /\ \E t \in DOMAIN tables, node \in YAMLInputs :
          LET r == UnmarshalYAML(tables[t], t, recv, node)
          IN  /\ recv' = r.i
              /\ call' = [op |-> "UnmarshalYAML", type |-> t, old |-> recv,
                          arg |-> node, err |-> r.err]
    /\ UNCHANGED <<flagVars, pc, allElements, genVars, tables>>

----------------------------------------------------------------------------
(* The SQL group of generated methods ({{if $.SQL}}) *)

\* what a database driver hands to Scan: nil, a string, a []byte, or a value
\* of another Go type
SQLNil == [Kind |-> "nil", Text |-> <<>>]
SQLString(s) == [Kind |-> "string", Text |-> s]
SQLBytes(s) == [Kind |-> "[]byte", Text |-> s]
SQLInt64 == [Kind |-> "int64", Text |-> <<>>]
SQLBool == [Kind |-> "bool", Text |-> <<>>]

\* the verb %T of fmt for the values of the model
GoTypeName(value) ==
    CASE value.Kind = "int64"  -> <<"i", "n", "t", "6", "4">>
      [] value.Kind = "bool"   -> <<"b", "o", "o", "l">>
      [] value.Kind = "string" -> <<"s", "t", "r", "i", "n", "g">>
      [] value.Kind = "[]byte" -> <<"[", "]", "u", "i", "n", "t", "8">>
      [] OTHER                 -> <<"<", "n", "i", "l", ">">>

CannotScanText ==
    <<"c", "a", "n", "n", "o", "t", " ", "s", "c", "a", "n", " ",
      "t", "y", "p", "e", " ">>

IntoText == <<" ", "i", "n", "t", "o", " ">>

\* Scan that stores the zero value for a nil input
ScanNilZeroes(tb, typeName, old, value) ==
    IF value.Kind = "nil" THEN [i |-> 0, err |-> <<>>]
    ELSE IF value.Kind \in {"string", "[]byte"}
    THEN LET r == TypeString(tb, typeName, value.Text)
         IN  [i |-> r.val, err |-> r.err]
    ELSE [i |-> old,
          err |-> CannotScanText \o GoTypeName(value) \o IntoText \o typeName]

\* func (i *T) Scan(value any) error: the new value of *i (old when it is
\* not assigned) and the error, <<>> for nil
Scan(tb, typeName, old, value) ==
    IF value.Kind = "nil" THEN [i |-> old, err |-> <<>>]
    ELSE IF value.Kind \in {"string", "[]byte"}
    THEN LET r == TypeString(tb, typeName, value.Text)
         IN  [i |-> r.val, err |-> r.err]
    ELSE [i |-> old,
          err |-> CannotScanText \o GoTypeName(value) \o IntoText \o typeName]

\* func (i T) Value() (driver.Value, error)
Value(tb, typeName, i) == [val |-> String(tb, typeName, i), err |-> <<>>]

----------------------------------------------------------------------------
(* A client program calling the SQL group *)

\* column values a client scans
SQLInputs ==
    { SQLString(s) : s \in ParseInputs } \cup { SQLBytes(s) : s \in ParseInputs }
      \cup { SQLNil, SQLInt64, SQLBool }

CallScan ==
    /\ pc = "running"
    /\ sqlFlag
    /\ \E t \in DOMAIN tables, value \in SQLInputs :
          LET r == Scan(tables[t], t, recv, value)
          IN  /\ recv' = r.i
              /\ call' = [op |-> "Scan", type |-> t, old |-> recv,
                          arg |-> value, err |-> r.err]
    /\ UNCHANGED <<flagVars, pc, allElements, genVars, tables>>

CallValue ==
    /\ pc = "running"
    /\ sqlFlag
    /\ \E t \in DOMAIN tables, i \in 0..MaxVal :
          call' = [op |-> "Value", type |-> t, recv |-> i,
                   ret |-> Value(tables[t], t, i)]
    /\ UNCHANGED <<flagVars, pc, allElements, genVars, tables, recv>>

----------------------------------------------------------------------------
(* Inputs: packages and command lines *)

TypeT == <<"T">>
TypeU == <<"U">>

\* lines of const blocks a package is made of; the names are distinct
PoolSpecs ==
    { ValueSpec(<<Ident(<<"P", "A">>, "T", 1)>>, <<>>),
      ValueSpec(<<Ident(<<"P", "P", "A">>, "T", 2)>>, << <<" ", "a", " ">> >>),
      ValueSpec(<<Ident(<<"A">>, "T", 3)>>, <<>>),
      ValueSpec(<<Ident(<<"P", "a">>, "T", 2)>>, << <<" ">> >>),
      ValueSpec(<<Ident(<<"P">>, "T", 0)>>, <<>>),
      ValueSpec(<<Ident(<<"b">>, "T", 0), Ident(<<"B">>, "U", 1)>>,
                << <<" ", "b">> >>) }

RECURSIVE NumIdents(_)
NumIdents(specs) ==
    IF specs = <<>> THEN 0 ELSE Len(Head(specs).Names) + NumIdents(Tail(specs))

\* the const lines of a package, in source order: distinct lines of the pool
SpecSeqs ==
    { q \in UNION { [1..n -> PoolSpecs] : n \in 0..MaxConsts } :
        /\ \A i, j \in DOMAIN q : i # j => q[i] # q[j]
        /\ NumIdents(q) <= MaxConsts }

\* two source files: the first holds a type declaration and one const block
\* with the first k lines, the second one const declaration per line left
PackageOf(q, k) ==
    [Name   |-> "testpkg",
     Types  |-> (TypeT :> "T") @@ (TypeU :> "U"),
     Syntax |-> << <<GenDecl("type", <<>>), GenDecl("const", SubSeq(q, 1, k))>>,
                   [i \in 1..(Len(q) - k) |-> GenDecl("const", <<q[k + i]>>)] >>]

Packages == { PackageOf(q, k) : <<q, k>> \in
                { x \in SpecSeqs \X (0..MaxConsts) : x[2] <= Len(x[1]) } }

TypeFlags == { <<>>, TypeT, TypeU, <<"X">> }

Prefixes == { <<>>, <<"P">> }

Init ==
    /\ \E type \in TypeFlags, prefix \in Prefixes,
          lc \in BOOLEAN, json \in {FALSE}, yaml \in {FALSE}, bitmask \in {FALSE} :
          Parsed(ArgsFor(type, prefix, lc, json, yaml, FALSE, <<>>, bitmask))
    /\ pkg \in Packages
    /\ pc = "start"
    /\ allElements = EmptyMap
    /\ artifact = "none"
    /\ outFile = NoFile
    /\ events = <<>>
    /\ tables = EmptyMap
    /\ recv = 0
    /\ call = NoCall

Next ==
    \/ Usage
    \/ ProcessTypes
    \/ WriteFile
    \/ Format
    \/ Build
    \/ CallString
    \/ CallValues
    \/ CallTypeString
    \/ CallValid

Spec == Init /\ [][Next]_vars

\* for the bitmask group: the package of two flags and their union,
\* PA = 1, PPA = 2, A = 3, in one const block
BitmaskPackages ==
    { PackageOf(q, 3) : q \in
        { x \in SpecSeqs :
            /\ Len(x) = 3
            /\ x[1].Names[1].Name = <<"P", "A">>
            /\ x[2].Names[1].Name = <<"P", "P", "A">>
            /\ x[3].Names[1].Name = <<"A">> } }

InitBitmask ==
    /\ \E type \in TypeFlags, prefix \in Prefixes,
          lc \in {FALSE}, json \in {FALSE}, yaml \in {FALSE}, bitmask \in BOOLEAN :
          Parsed(ArgsFor(type, prefix, lc, json, yaml, FALSE, <<>>, bitmask))
    /\ pkg \in BitmaskPackages
    /\ pc = "start"
    /\ allElements = EmptyMap
    /\ artifact = "none"
    /\ outFile = NoFile
    /\ events = <<>>
    /\ tables = EmptyMap
    /\ recv = 0
    /\ call = NoCall

NextBitmask ==
    \/ Usage
    \/ ProcessTypes
    \/ WriteFile
    \/ Format
    \/ Build
    \/ CallHas
    \/ CallHasAny
    \/ CallHasAll
    \/ CallSet
    \/ CallClear
    \/ CallToggle
    \/ Assign
    \/ AssignValue

SpecBitmask == InitBitmask /\ [][NextBitmask]_vars

\* for the JSON and YAML groups: packages of at most two const lines in one
\* block, run with and without -json and -yaml
TextPackages ==
    { PackageOf(q, Len(q)) : q \in { x \in SpecSeqs : Len(x) <= 2 } }

InitText ==
    /\ \E type \in TypeFlags, prefix \in Prefixes,
          lc \in {FALSE}, json \in BOOLEAN, yaml \in BOOLEAN, bitmask \in {FALSE} :
          Parsed(ArgsFor(type, prefix, lc, json, yaml, FALSE, <<>>, bitmask))
    /\ pkg \in TextPackages
    /\ pc = "start"
    /\ allElements = EmptyMap
    /\ artifact = "none"
    /\ outFile = NoFile
    /\ events = <<>>
    /\ tables = EmptyMap
    /\ recv = 0
    /\ call = NoCall

NextText ==
    \/ Usage
    \/ ProcessTypes
    \/ WriteFile
    \/ Format
    \/ Build
    \/ CallMarshalJSON
    \/ CallUnmarshalJSON
    \/ CallMarshalYAML
    \/ CallUnmarshalYAML

SpecText == InitText /\ [][NextText]_vars

\* for the SQL group: the same packages, run with and without -sql
InitSQL ==
    /\ \E type \in TypeFlags, prefix \in Prefixes, sql \in BOOLEAN :
          Parsed(ArgsFor(type, prefix, FALSE, FALSE, FALSE, sql, <<>>, FALSE))
    /\ pkg \in TextPackages
    /\ pc = "start"
    /\ allElements = EmptyMap
    /\ artifact = "none"
    /\ outFile = NoFile
    /\ events = <<>>
    /\ tables = EmptyMap
    /\ recv = 0
    /\ call = NoCall

NextSQL ==
    \/ Usage
    \/ ProcessTypes
    \/ WriteFile
    \/ Format
    \/ Build
    \/ CallScan
    \/ CallValue

SpecSQL == InitSQL /\ [][NextSQL]_vars

\* for the generator itself: a package with two types, an alias of the
\* first, an untyped constant, and the second type with or without a
\* constant of its own
TypeTA == <<"T", "A">>

GenPackageOf(withU) ==
    [Name   |-> "testpkg",
     Types  |-> (TypeT :> "T") @@ (TypeU :> "U") @@ (TypeTA :> "T"),
     Syntax |-> << <<GenDecl("type", <<>>),
                     GenDecl("const",
                        <<ValueSpec(<<Ident(<<"P", "A">>, "T", 1)>>, <<>>),
                          ValueSpec(<<Ident(<<"P", "P", "A">>, "T", 2)>>,
                                    << <<" ", "a", " ">> >>),
                          ValueSpec(<<Ident(<<"a", "b">>, "untyped int", 1)>>,
                                    <<>>)>>)>>,
                   IF withU
                   THEN <<GenDecl("const",
                            <<ValueSpec(<<Ident(<<"B">>, "U", 1)>>, <<>>)>>)>>
                   ELSE <<>> >>]

GenPackages == { GenPackageOf(withU) : withU \in BOOLEAN }

\* values of -type: none, one type, lists in both orders and with blanks, an
\* unknown name before and after a known one, a name twice, the alias, and
\* the name of a constant
GenTypeFlags ==
    { <<>>, TypeT, TypeU,
      <<"T", ",", "U">>, <<"U", ",", "T">>, <<" ", "U", " ", ",", " ", "T">>,
      <<"T", ",", "X">>, <<"X", ",", "T">>, <<"T", ",", "T">>,
      TypeTA, <<"U", ",", "T", "A">>, <<"P", "A">> }

\* values of -trimprefix and of -output; a quoted word may hold a blank
GenPrefixes == { <<>>, <<"P">> }

GenOutputs == { <<>>, <<"X">>, <<"a", " ", "b">> }

Reverse(seq) == [i \in DOMAIN seq |-> seq[Len(seq) + 1 - i]]

\* the flags in the order of the usage text, or in the opposite order
InitGen ==
    /\ \E type \in GenTypeFlags, prefix \in GenPrefixes, out \in GenOutputs,
          lc \in BOOLEAN, json \in BOOLEAN, yaml \in BOOLEAN, sql \in BOOLEAN,
          bitmask \in BOOLEAN, reversed \in BOOLEAN :
          LET words == ArgsFor(type, prefix, lc, json, yaml, sql, out, bitmask)
          IN  Parsed(IF reversed THEN Reverse(words) ELSE words)
    /\ pkg \in GenPackages
    /\ pc = "start"
    /\ allElements = EmptyMap
    /\ artifact = "none"
    /\ outFile = NoFile
    /\ events = <<>>
    /\ tables = EmptyMap
    /\ recv = 0
    /\ call = NoCall

NextGen ==
    \/ Usage
    \/ ProcessTypes
    \/ WriteFile
    \/ Format
    \/ Build

SpecGen == InitGen /\ [][NextGen]_vars

\* for the literals of the tables: constants whose trailing comments hold a
\* double quote, a backslash before n, a backslash before a space, and
\* escaped double quotes; and a constant whose name is the prefix "P"
LiteralSpecs ==
    { ValueSpec(<<Ident(<<"P">>, "T", 0)>>, <<>>),
      ValueSpec(<<Ident(<<"A">>, "T", 1)>>, << <<" ", "a", "\"", "b">> >>),
      ValueSpec(<<Ident(<<"B">>, "T", 2)>>, << <<" ", "a", "\\", "n", "b">> >>),
      ValueSpec(<<Ident(<<"C">>, "T", 3)>>, << <<" ", "a", "\\", " ", "b">> >>),
      ValueSpec(<<Ident(<<"D">>, "T", 4)>>,
                << <<" ", "\\", "\"", "a", "\\", "\"">> >>) }

LiteralPackages ==
    { PackageOf(<<>>, 0) }
    \cup { PackageOf(<<a>>, 1) : a \in LiteralSpecs }
    \cup { PackageOf(<<x[1], x[2]>>, 2) :
             x \in { y \in LiteralSpecs \X LiteralSpecs : y[1] # y[2] } }

InitLiteral ==
    /\ \E type \in { <<>>, TypeT }, prefix \in Prefixes, lc \in BOOLEAN :
          Parsed(ArgsFor(type, prefix, lc, FALSE, FALSE, FALSE, <<>>, FALSE))
    /\ pkg \in LiteralPackages
    /\ pc = "start"
    /\ allElements = EmptyMap
    /\ artifact = "none"
    /\ outFile = NoFile
    /\ events = <<>>
    /\ tables = EmptyMap
    /\ recv = 0
    /\ call = NoCall

NextLiteral ==
    \/ Usage
    \/ ProcessTypes
    \/ WriteFile
    \/ Format
    \/ Build
    \/ CallString
    \/ CallTypeStringDisplayed

SpecLiteral == InitLiteral /\ [][NextLiteral]_vars

\* for the slice TValues() returns: the base group in use by a client that
\* also writes into the slice it was given
InitValues ==
    /\ \E type \in TypeFlags, prefix \in Prefixes :
          Parsed(ArgsFor(type, prefix, FALSE, FALSE, FALSE, FALSE, <<>>, FALSE))
    /\ pkg \in TextPackages
    /\ pc = "start"
    /\ allElements = EmptyMap
    /\ artifact = "none"
    /\ outFile = NoFile
    /\ events = <<>>
    /\ tables = EmptyMap
    /\ recv = 0
    /\ call = NoCall

NextValues ==
    \/ Usage
    \/ ProcessTypes
    \/ WriteFile
    \/ Format
    \/ Build
    \/ CallString
    \/ CallValues
    \/ CallValid
    \/ WriteValues

SpecValues == InitValues /\ [][NextValues]_vars

\* for the three decoders together: a file generated with -json, -yaml and
\* -sql, and a client that decodes into its variable recv
InitDecode ==
    /\ \E type \in TypeFlags, prefix \in Prefixes :
          Parsed(ArgsFor(type, prefix, FALSE, TRUE, TRUE, TRUE, <<>>, FALSE))
    /\ pkg \in TextPackages
    /\ pc = "start"
    /\ allElements = EmptyMap
    /\ artifact = "none"
    /\ outFile = NoFile
    /\ events = <<>>
    /\ tables = EmptyMap
    /\ recv = 0
    /\ call = NoCall

NextDecode ==
    \/ Usage
    \/ ProcessTypes
    \/ WriteFile
    \/ Format
    \/ Build
    \/ CallUnmarshalJSON
    \/ CallUnmarshalYAML
    \/ CallScan

SpecDecode == InitDecode /\ [][NextDecode]_vars

----------------------------------------------------------------------------
(* What the claims speak of, read off the package and not off the tables *)

\* the states in which processType has run for every requested type
Resolved == pc \in {"resolved", "written", "done", "running", "build failed"}

\* every constant of the package, file after file, in source order
DeclaredIdents(p) ==
    LET specsOf(file) ==
            [k \in 1..Len(file) |-> file[k].Specs]
        RECURSIVE Concat(_)
        Concat(ss) == IF ss = <<>> THEN <<>> ELSE Head(ss) \o Concat(Tail(ss))
        namesOf(specs) == Concat([k \in 1..Len(specs) |-> specs[k].Names])
        identsOf(file) == namesOf(Concat(specsOf(file)))
    IN  Concat([f \in 1..Len(p.Syntax) |-> identsOf(p.Syntax[f])])

\* the constants of the type the name t denotes, in source order
DeclaredOf(p, t) ==
    SelectSeq(DeclaredIdents(p), LAMBDA c : c.Type = p.Types[t])

\* the trailing comment of the line that declares the constant called name
CommentOf(p, name) ==
    LET line == CHOOSE spec \in UNION { UNION { Range(decl.Specs) :
                                                decl \in Range(file) } :
                                        file \in Range(p.Syntax) } :
                    \E c \in Range(spec.Names) : c.Name = name
    IN  line.Comment

\* element i of type t is overwritten by a later element: one with the same
\* value in the value-to-string table, or one with the same display string
\* in the string-to-value table
Overwritten(p, elems, i) ==
    \E j \in DOMAIN elems :
        /\ j > i
        /\ \/ ConstVal(p, elems[j].Name) = ConstVal(p, elems[i].Name)
           \/ elems[j].StringValue = elems[i].StringValue

----------------------------------------------------------------------------
(* C1 *)

\* C1: round trip. In a running program, for every Element e of every
\* generated type that no later Element overwrites, TString(e.String())
\* succeeds and returns e's value.
C1_RoundTrip ==
    pc = "running" =>
        \A t \in DOMAIN tables : \A i \in DOMAIN allElements[t] :
            LET v == ConstVal(pkg, allElements[t][i].Name)
            IN  ~Overwritten(pkg, allElements[t], i) =>
                    TypeString(tables[t], t, String(tables[t], t, v))
                        = [val |-> v, ok |-> TRUE, err |-> <<>>]

\* a client parsed the display string of a constant whose display string is
\* not its declared name, and got the constant back
C1_Witness ==
    /\ pc = "running"
    /\ call.op = "TypeString"
    /\ \E i \in DOMAIN allElements[call.type] :
          LET e == allElements[call.type][i]
          IN  /\ e.StringValue # e.Name
              /\ call.arg = String(tables[call.type], call.type, ConstVal(pkg, e.Name))
              /\ call.arg = e.StringValue
              /\ call.ret.ok
              /\ call.ret.val = ConstVal(pkg, e.Name)

----------------------------------------------------------------------------
(* C3 *)

\* C3: enumeration. Once the types are resolved, the Elements of a type are
\* the constants declared with that type, one each, in source order (file
\* after file), equal values included; in a running program TValues()
\* returns their values in that order.
C3_Enumeration ==
    /\ Resolved =>
          \A t \in DOMAIN allElements :
              /\ Len(allElements[t]) = Len(DeclaredOf(pkg, t))
              /\ \A i \in DOMAIN allElements[t] :
                    /\ allElements[t][i].Name = DeclaredOf(pkg, t)[i].Name
                    /\ allElements[t][i].Value = DeclaredOf(pkg, t)[i].Val
    /\ (pc = "running" /\ call.op = "Values") =>
          call.ret = [i \in DOMAIN DeclaredOf(pkg, call.type) |->
                         DeclaredOf(pkg, call.type)[i].Val]

\* TValues() returned three values that were declared in two files
C3_Witness ==
    /\ pc = "running"
    /\ call.op = "Values"
    /\ Len(call.ret) = 3
    /\ Len(pkg.Syntax[1][2].Specs) = 1
    /\ Len(pkg.Syntax[2]) = 2

----------------------------------------------------------------------------
(* C4 *)

\* C4: parse. TString(s) succeeds exactly when s is the display string of an
\* Element, character for character, and then returns that Element's value
\* and a nil error; otherwise it returns an error whose text is s, then
\* " is not a valid ", then the type name.
C4_Parse ==
    (pc = "running" /\ call.op = "TypeString") =>
        LET elems == allElements[call.type]
            hits  == { i \in DOMAIN elems : elems[i].StringValue = call.arg }
        IN  IF hits # {}
            THEN /\ call.ret.ok
                 /\ call.ret.err = <<>>
                 /\ \E i \in hits : call.ret.val = ConstVal(pkg, elems[i].Name)
            ELSE /\ ~call.ret.ok
                 /\ call.ret.err = call.arg \o NotValidText \o call.type

\* a client parsed a declared name that is no display string (the prefix was
\* trimmed off it, or a comment replaced it) and got the error
C4_Witness ==
    /\ pc = "running"
    /\ call.op = "TypeString"
    /\ ~call.ret.ok
    /\ \E i \in DOMAIN allElements[call.type] :
          /\ allElements[call.type][i].Name = call.arg
          /\ allElements[call.type][i].StringValue # call.arg
    /\ HasPrefix(call.ret.err, call.arg)

----------------------------------------------------------------------------
(* C5 *)

IsBlank(text) == \A k \in DOMAIN text : IsSpace(text[k])

\* text is raw without the white space around it
IsTrimOf(text, raw) ==
    /\ text # <<>>
    /\ ~IsSpace(text[1])
    /\ ~IsSpace(text[Len(text)])
    /\ \E a \in 0..Len(raw) :
          /\ a + Len(text) <= Len(raw)
          /\ SubSeq(raw, a + 1, a + Len(text)) = text
          /\ IsBlank(SubSeq(raw, 1, a))
          /\ IsBlank(SubSeq(raw, a + Len(text) + 1, Len(raw)))

\* C5: display string. With -linecomment and a trailing comment that is not
\* blank, the display string is the comment's text without the white space
\* around it; otherwise, with a non-empty prefix that the name starts with,
\* the prefix followed by the display string is the name; otherwise the
\* display string is the name.
C5_DisplayString ==
    Resolved =>
        \A t \in DOMAIN allElements : \A i \in DOMAIN allElements[t] :
            LET e       == allElements[t][i]
                comment == CommentOf(pkg, e.Name)
            IN  IF lineComment /\ comment # <<>> /\ ~IsBlank(comment[1])
                THEN IsTrimOf(e.StringValue, comment[1])
                ELSE IF trimPrefix # <<>> /\ HasPrefix(e.Name, trimPrefix)
                THEN trimPrefix \o e.StringValue = e.Name
                ELSE e.StringValue = e.Name

\* one run with prefix "P" and -linecomment: PPA, whose comment is " a ",
\* displays as "a"; Pa, whose comment is blank, as "a" (trimmed); and in the
\* same type PA, which has no comment, as "A"
C5_Witness ==
    /\ pc = "resolved"
    /\ lineComment
    /\ trimPrefix = <<"P">>
    /\ TypeT \in DOMAIN allElements
    /\ \E i, j, k \in DOMAIN allElements[TypeT] :
          /\ allElements[TypeT][i] = Element(<<"P", "P", "A">>, 2, <<"a">>)
          /\ allElements[TypeT][j] = Element(<<"P", "a">>, 2, <<"a">>)
          /\ allElements[TypeT][k] = Element(<<"P", "A">>, 1, <<"A">>)

----------------------------------------------------------------------------
(* C2 *)

\* v is the value of a constant declared with the type called t
IsDeclared(p, t, v) == \E k \in DOMAIN DeclaredOf(p, t) : DeclaredOf(p, t)[k].Val = v

\* C2: membership. v.Valid() is true exactly when v is the value of a
\* declared constant of the type; so the OR of two valid values is valid
\* only if that value was declared itself.
C2_Membership ==
    /\ (pc = "running" /\ call.op = "Valid") =>
          call.ret = IsDeclared(pkg, call.type, call.recv)
    /\ pc = "running" =>
          \A t \in DOMAIN tables : \A a, b \in 0..MaxVal :
              (Valid(tables[t], a) /\ Valid(tables[t], b)) =>
                  (Valid(tables[t], BitOr(a, b)) <=> IsDeclared(pkg, t, BitOr(a, b)))

\* 1 and 2 are valid, 3 = 1|2 was not declared, and Valid() of 3 was false
C2_Witness ==
    /\ pc = "running"
    /\ call.op = "Valid"
    /\ call.recv = BitOr(1, 2)
    /\ call.ret = FALSE
    /\ Valid(tables[call.type], 1)
    /\ Valid(tables[call.type], 2)

----------------------------------------------------------------------------
(* The bitmask claims, stated bit by bit *)

RECURSIVE Pow2(_)
Pow2(k) == IF k = 0 THEN 1 ELSE 2 * Pow2(k - 1)

\* bit k of n is set
Bit(n, k) == (n \div Pow2(k)) % 2 = 1

\* the bit positions of the model's values, all below 2^(MaxVal+1)
BitPositions == 0..MaxVal

Shares(i, f) == \E k \in BitPositions : Bit(i, k) /\ Bit(f, k)

Contains(i, f) == \A k \in BitPositions : Bit(f, k) => Bit(i, k)

\* how many of the flags have bit k set
RECURSIVE CountBit(_, _)
CountBit(flags, k) ==
    IF flags = <<>> THEN 0
    ELSE (IF Bit(Head(flags), k) THEN 1 ELSE 0) + CountBit(Tail(flags), k)

InRange(v) == v >= 0 /\ v < Pow2(MaxVal + 1)

----------------------------------------------------------------------------
(* C6 *)

\* C6: bitmask laws. When a client stores i.Set(F) and calls Set(F) on it
\* again, the result is the stored value; the same for Clear; and
\* i.Toggle(F).Toggle(F) is i.
C6_BitmaskLaws ==
    /\ (call.op = "Set" /\ call.twice) => call.ret = call.recv
    /\ (call.op = "Clear" /\ call.twice) => call.ret = call.recv
    /\ (call.op = "Toggle" /\ call.twice) => call.ret = call.first

\* a second Toggle of the same two flags undid a first one that had changed
\* the value
C6_Witness ==
    /\ call.op = "Toggle"
    /\ call.twice
    /\ Len(call.flags) = 2
    /\ call.recv # call.first
    /\ call.ret = call.first

----------------------------------------------------------------------------
(* C7 *)

\* C7: bitmask tests. Has(f) is true iff i and f share a bit; HasAny iff i
\* shares a bit with at least one argument (false for none); HasAll iff i
\* shares a bit with every argument (true for none).
C7_BitmaskTests ==
    /\ call.op = "Has" => (call.ret <=> Shares(call.recv, call.flag))
    /\ call.op = "HasAny" =>
          (call.ret <=> \E j \in DOMAIN call.flags : Shares(call.recv, call.flags[j]))
    /\ call.op = "HasAll" =>
          (call.ret <=> \A j \in DOMAIN call.flags : Shares(call.recv, call.flags[j]))

\* HasAll of two flags was true although the receiver holds only one bit of
\* the composite flag among them
C7_Witness ==
    /\ call.op = "HasAll"
    /\ Len(call.flags) = 2
    /\ call.ret = TRUE
    /\ \E j \in DOMAIN call.flags : ~Contains(call.recv, call.flags[j])

----------------------------------------------------------------------------
(* C8 *)

\* C8: for a flag f that is not zero, Has(f) is true exactly when every bit
\* of f is present in i, and HasAll(f1..fn) exactly when that holds for
\* every fk.
C8_HasEveryBit ==
    /\ (call.op = "Has" /\ call.flag # 0) =>
          (call.ret <=> Contains(call.recv, call.flag))
    /\ (call.op = "HasAll" /\ \A j \in DOMAIN call.flags : call.flags[j] # 0) =>
          (call.ret <=> \A j \in DOMAIN call.flags : Contains(call.recv, call.flags[j]))

----------------------------------------------------------------------------
(* C9 *)

\* C9: Set, Clear and Toggle. Bit by bit the result of Set is i OR the
\* flags, of Clear i AND NOT any flag, of Toggle i XOR each flag; with no
\* flags it is i; and the client's receiver still holds the value it had.
C9_SetClearToggle ==
    /\ call.op = "Set" =>
          /\ InRange(call.ret)
          /\ \A k \in BitPositions :
                Bit(call.ret, k) <=>
                    (Bit(call.recv, k) \/ \E j \in DOMAIN call.flags : Bit(call.flags[j], k))
    /\ call.op = "Clear" =>
          /\ InRange(call.ret)
          /\ \A k \in BitPositions :
                Bit(call.ret, k) <=>
                    (Bit(call.recv, k) /\ \A j \in DOMAIN call.flags : ~Bit(call.flags[j], k))
    /\ call.op = "Toggle" =>
          /\ InRange(call.ret)
          /\ \A k \in BitPositions :
                Bit(call.ret, k) <=>
                    (Bit(call.recv, k) <=> CountBit(call.flags, k) % 2 = 0)
    /\ call.op \in {"Set", "Clear", "Toggle"} =>
          /\ recv = call.recv
          /\ call.flags = <<>> => call.ret = call.recv

\* Clear of two flags returned another value than the receiver, which the
\* client still holds
C9_Witness ==
    /\ call.op = "Clear"
    /\ Len(call.flags) = 2
    /\ call.flags[1] # call.flags[2]
    /\ call.ret # call.recv
    /\ recv = call.recv

----------------------------------------------------------------------------
(* C10 *)

\* the values of the Elements of type t whose display string is s
ValuesDisplayedAs(p, elems, s) ==
    { ConstVal(p, elems[i].Name) : i \in { k \in DOMAIN elems : elems[k].StringValue = s } }

\* the string a JSON text or a YAML node holds, if it is a string
IsStringInput(op, arg) ==
    IF op = "UnmarshalJSON" THEN \E s \in ParseInputs : arg = JSONMarshalString(s)
    ELSE arg.Kind = "scalar" /\ arg.Tag = "!!str"

StringOfInput(op, arg) ==
    IF op = "UnmarshalJSON" THEN CHOOSE s \in ParseInputs : arg = JSONMarshalString(s)
    ELSE arg.Value

\* marshaling gives the display string and no error
MarshalGivesDisplay ==
    /\ call.op = "MarshalJSON" =>
          /\ call.ret.err = <<>>
          /\ call.ret.data = <<"\"">> \o String(tables[call.type], call.type, call.recv)
                                      \o <<"\"">>
    /\ call.op = "MarshalYAML" =>
          /\ call.ret.err = <<>>
          /\ call.ret.data = String(tables[call.type], call.type, call.recv)

\* unmarshaling a string: the Element's value for a display string, an
\* error for any other string
UnmarshalParsesStrings ==
    (call.op \in {"UnmarshalJSON", "UnmarshalYAML"} /\ IsStringInput(call.op, call.arg)) =>
        LET vals == ValuesDisplayedAs(pkg, allElements[call.type],
                                      StringOfInput(call.op, call.arg))
        IN  IF vals # {} THEN call.err = <<>> /\ recv \in vals
            ELSE call.err # <<>>

\* Unmarshal(Marshal(v)) = v for every declared Element
TextRoundTrip ==
    pc = "running" =>
        \A t \in DOMAIN tables : \A i \in DOMAIN allElements[t] :
            LET v == ConstVal(pkg, allElements[t][i].Name)
                ok == [i |-> v, err |-> <<>>]
            IN  ~Overwritten(pkg, allElements[t], i) =>
                  /\ UnmarshalJSON(tables[t], t, 0, MarshalJSON(tables[t], t, v).data) = ok
                  /\ UnmarshalYAML(tables[t], t, 0,
                         YAMLScalar("!!str", MarshalYAML(tables[t], t, v).data)) = ok

\* C10: text encodings. Marshaling yields the display string and never
\* fails; unmarshaling a display string yields its Element's value;
\* unmarshaling any other string, or an input that is not a string, fails;
\* Unmarshal(Marshal(v)) = v for every declared Element.
C10_TextEncodings ==
    /\ MarshalGivesDisplay
    /\ UnmarshalParsesStrings
    /\ TextRoundTrip
    /\ (call.op \in {"UnmarshalJSON", "UnmarshalYAML"} /\ ~IsStringInput(call.op, call.arg))
          => call.err # <<>>

\* what the code does hold to: the same, with the inputs that are no string
\* failing unless the input is the JSON null and "" is a display string
C10_ExceptNull ==
    /\ MarshalGivesDisplay
    /\ UnmarshalParsesStrings
    /\ TextRoundTrip
    /\ (call.op \in {"UnmarshalJSON", "UnmarshalYAML"} /\ ~IsStringInput(call.op, call.arg))
          => \/ call.err # <<>>
             \/ /\ call.op = "UnmarshalJSON"
                /\ call.arg = JSONNull
                /\ recv \in ValuesDisplayedAs(pkg, allElements[call.type], <<>>)

----------------------------------------------------------------------------
(* C11 *)

\* the text word occurs in the text s
Mentions(s, word) ==
    \E k \in 0..(Len(s) - Len(word)) : SubSeq(s, k + 1, k + Len(word)) = word

\* C11: column storage. Scan of a string or of a []byte stores the value of
\* the Element whose display string the text is and returns nil, and fails
\* for any other text; Scan(nil) returns nil and leaves the receiver as it
\* was; Scan of a value of another type fails with an error that names that
\* type, the receiver left as it was; Value() returns no error, and the
\* display string for a declared value.
C11_ColumnStorage ==
    /\ (pc = "running" /\ call.op = "Scan") =>
          CASE call.arg.Kind \in {"string", "[]byte"} ->
                  LET vals == ValuesDisplayedAs(pkg, allElements[call.type],
                                                call.arg.Text)
                  IN  IF vals # {} THEN call.err = <<>> /\ recv \in vals
                      ELSE call.err # <<>>
            [] call.arg.Kind = "nil" -> call.err = <<>> /\ recv = call.old
            [] OTHER -> /\ call.err # <<>>
                        /\ Mentions(call.err, GoTypeName(call.arg))
                        /\ recv = call.old
    /\ (pc = "running" /\ call.op = "Value") =>
          /\ call.ret.err = <<>>
          /\ \A i \in DOMAIN allElements[call.type] :
                ConstVal(pkg, allElements[call.type][i].Name) = call.recv =>
                    call.ret.val = allElements[call.type][i].StringValue

\* a receiver that held a non-zero value scanned nil and kept its value
C11_Witness ==
    /\ pc = "running"
    /\ call.op = "Scan"
    /\ call.arg.Kind = "nil"
    /\ call.old # 0
    /\ recv = call.old
    /\ call.err = <<>>

----------------------------------------------------------------------------
(* C12 *)

\* the names the run was asked for: the pieces of -type without the blanks
\* around them
Requested == Range([i \in DOMAIN Split(typeNames) |-> TrimSpace(Split(typeNames)[i])])

\* nothing at package level is called name
Unknown(p, name) ==
    /\ name \notin DOMAIN p.Types
    /\ \A c \in AllIdents(p) : c.Name # name

\* name is a type of the package and no constant has that type
NoConstants(p, name) ==
    /\ name \in DOMAIN p.Types
    /\ \A c \in AllIdents(p) : c.Type # p.Types[name]

\* the run has left resolution behind, one way or the other
PastResolution == pc \notin {"start", "usage"}

----------------------------------------------------------------------------
(* C13 *)

\* the declarations of one type's block in the order of the template, each
\* with the toggle that selects it ("base" is always selected)
GroupOrder ==
    <<[Decl |-> "_Map", Group |-> "base"],
      [Decl |-> "_Values", Group |-> "base"],
      [Decl |-> "_NameToValueMap", Group |-> "base"],
      [Decl |-> "String", Group |-> "base"],
      [Decl |-> "Values", Group |-> "base"],
      [Decl |-> "TypeString", Group |-> "base"],
      [Decl |-> "Valid", Group |-> "base"],
      [Decl |-> "Has", Group |-> "bitmask"],
      [Decl |-> "HasAny", Group |-> "bitmask"],
      [Decl |-> "HasAll", Group |-> "bitmask"],
      [Decl |-> "Set", Group |-> "bitmask"],
      [Decl |-> "Clear", Group |-> "bitmask"],
      [Decl |-> "Toggle", Group |-> "bitmask"],
      [Decl |-> "MarshalJSON", Group |-> "json"],
      [Decl |-> "UnmarshalJSON", Group |-> "json"],
      [Decl |-> "MarshalYAML", Group |-> "yaml"],
      [Decl |-> "UnmarshalYAML", Group |-> "yaml"],
      [Decl |-> "Scan", Group |-> "sql"],
      [Decl |-> "Value", Group |-> "sql"]>>

\* the toggle was given on the command line, at whatever place
ToggleOn(group) ==
    CASE group = "base"    -> TRUE
      [] group = "bitmask" -> BoolArg(FlagBitmask) \in Range(args)
      [] group = "json"    -> BoolArg(FlagJSON) \in Range(args)
      [] group = "yaml"    -> BoolArg(FlagYAML) \in Range(args)
      [] group = "sql"     -> BoolArg(FlagSQL) \in Range(args)

\* what a block has to declare under the toggles given
ExpectedDecls == SelectSeq(GroupOrder, LAMBDA g : ToggleOn(g.Group))

\* C13: method groups. In a written file the declarations come in blocks of
\* equal length, one per requested type; every block holds the three tables
\* and String, Values, TString, Valid, then the bitmask, JSON, YAML and SQL
\* groups in that order, a group being there exactly when its toggle was
\* given, wherever on the command line it stood.
C13_MethodGroups ==
    outFile # NoFile =>
        LET decls == outFile.Content.Decls
            n     == Len(ExpectedDecls)
            types == Types(typeNames)
        IN  /\ Len(decls) = n * Len(types)
            /\ \A k \in DOMAIN types : \A j \in 1..n :
                  /\ decls[(k - 1) * n + j].Type = types[k]
                  /\ decls[(k - 1) * n + j].Decl = ExpectedDecls[j].Decl

\* a file written for a command line that gave -bitmask before -sql, -sql
\* before -yaml and no -json: the blocks hold bitmask, YAML, SQL in that order
C13_Witness ==
    /\ outFile # NoFile
    /\ Len(args) >= 4
    /\ \E a, b, c \in DOMAIN args :
          /\ a < b /\ b < c
          /\ args[a] = BoolArg(FlagBitmask)
          /\ args[b] = BoolArg(FlagSQL)
          /\ args[c] = BoolArg(FlagYAML)
    /\ BoolArg(FlagJSON) \notin Range(args)
    /\ Len(outFile.Content.Decls) = 17 * Len(Types(typeNames))
    /\ outFile.Content.Decls[14].Decl = "MarshalYAML"
    /\ outFile.Content.Decls[16].Decl = "Scan"

----------------------------------------------------------------------------
(* C14 *)

\* C14: fallback. For a value that no constant of the type was declared
\* with, String() returns the type name, "(", the value in decimal, ")",
\* and Valid() is false; for a declared value String() returns the display
\* string of a constant declared with it.
C14_Fallback ==
    /\ (pc = "running" /\ call.op = "String") =>
          IF IsDeclared(pkg, call.type, call.recv)
          THEN \E i \in DOMAIN allElements[call.type] :
                  /\ ConstVal(pkg, allElements[call.type][i].Name) = call.recv
                  /\ call.ret = allElements[call.type][i].StringValue
          ELSE /\ call.ret = call.type \o <<"(">> \o Decimal(call.recv) \o <<")">>
               /\ ~Valid(tables[call.type], call.recv)
    /\ (pc = "running" /\ call.op = "Valid") =>
          (~call.ret =>
              String(tables[call.type], call.type, call.recv)
                  = call.type \o <<"(">> \o Decimal(call.recv) \o <<")">>)

\* T(4).String() returned "T(4)" in a program whose type T has constants,
\* none of them 4
C14_Witness ==
    /\ pc = "running"
    /\ call.op = "String"
    /\ call.type = TypeT
    /\ call.recv = 4
    /\ call.ret = <<"T", "(", "4", ")">>
    /\ Len(allElements[TypeT]) >= 2

----------------------------------------------------------------------------
(* C15 *)

\* the last Element of elems that has the value v / the display string s
LastWithValue(p, elems, v) ==
    elems[CHOOSE i \in DOMAIN elems :
            /\ ConstVal(p, elems[i].Name) = v
            /\ \A j \in DOMAIN elems : ConstVal(p, elems[j].Name) = v => j <= i]

LastWithString(elems, s) ==
    elems[CHOOSE i \in DOMAIN elems :
            /\ elems[i].StringValue = s
            /\ \A j \in DOMAIN elems : elems[j].StringValue = s => j <= i]

\* two Elements of the type share a value or a display string
Collides(p, elems) ==
    \E i, j \in DOMAIN elems :
        /\ i < j
        /\ \/ ConstVal(p, elems[i].Name) = ConstVal(p, elems[j].Name)
           \/ elems[i].StringValue = elems[j].StringValue

\* C15: last declaration wins. When generation has completed for a type in
\* which two Elements share a value or a display string, the generated file
\* is a valid artifact (the package builds), its value-to-string table maps
\* a shared value to the display string of the last Element declared with
\* it, and its string-to-value table maps a shared display string to the
\* value of the last Element displayed so.
C15_LastDeclarationWins ==
    pc \in {"running", "build failed"} =>
        \A t \in DOMAIN allElements :
            Collides(pkg, allElements[t]) =>
                /\ pc = "running"
                /\ \A i \in DOMAIN allElements[t] :
                      LET v == ConstVal(pkg, allElements[t][i].Name)
                          s == allElements[t][i].StringValue
                      IN  /\ tables[t].Map[v]
                               = LastWithValue(pkg, allElements[t], v).StringValue
                          /\ tables[t].NameToValueMap[s]
                               = ConstVal(pkg, LastWithString(allElements[t], s).Name)

----------------------------------------------------------------------------
(* C16 *)

\* the names of the constants whose static type is the type called t, in
\* source order
NamesOfType(p, t) ==
    LET ds == DeclaredOf(p, t)
    IN  [i \in DOMAIN ds |-> ds[i].Name]

\* C16: membership by type identity. Once resolution is over, a requested
\* name that is no type of the package has made the run fail (NotFound),
\* and the Elements kept for a requested name are exactly the constants
\* whose static type is identical to the type of that name: no untyped
\* constant and no constant of another named type is among them.
C16_TypeIdentity ==
    PastResolution =>
        /\ (\E t \in Requested : t \notin DOMAIN pkg.Types) => pc = "fatal"
        /\ \A t \in DOMAIN allElements :
              /\ t \in DOMAIN pkg.Types
              /\ [i \in DOMAIN allElements[t] |-> allElements[t][i].Name]
                    = NamesOfType(pkg, t)

----------------------------------------------------------------------------
(* C17 *)

\* the value of -output on the command line, <<>> when it was not given
GivenOutput ==
    IF \E k \in DOMAIN args : HasPrefix(args[k], ValueArg(FlagOutput, <<>>))
    THEN LET w == args[CHOOSE k \in DOMAIN args :
                         HasPrefix(args[k], ValueArg(FlagOutput, <<>>))]
         IN  SubSeq(w, Len(ValueArg(FlagOutput, <<>>)) + 1, Len(w))
    ELSE <<>>

\* the number of names asked for, a repeated name counted each time
NumRequested == Len(Split(typeNames))

\* C17: output file name. The file is written under the name given with
\* -output, unchanged, if one was given; otherwise under the lower-cased
\* type name followed by "_enumer.go" when one type was asked for, and
\* under "flags_gen.go" with -bitmask, "enums_gen.go" without, when several
\* were.
C17_OutputName ==
    outFile # NoFile =>
        IF GivenOutput # <<>> THEN outFile.Name = GivenOutput
        ELSE IF NumRequested = 1
        THEN outFile.Name = ToLower(TrimSpace(typeNames)) \o EnumerGoSuffix
        ELSE IF BoolArg(FlagBitmask) \in Range(args)
        THEN outFile.Name = <<"f", "l", "a", "g", "s", "_", "g", "e", "n", ".", "g", "o">>
        ELSE outFile.Name = <<"e", "n", "u", "m", "s", "_", "g", "e", "n", ".", "g", "o">>

\* -type=T without -output wrote t_enumer.go
C17_Witness ==
    /\ outFile # NoFile
    /\ typeNames = TypeT
    /\ GivenOutput = <<>>
    /\ outFile.Name = <<"t", "_", "e", "n", "u", "m", "e", "r", ".", "g", "o">>

----------------------------------------------------------------------------
(* C18 *)

\* the run has ended with exit status 0 (the states after it included)
Succeeded == pc \in {"done", "running", "build failed"}

\* the formatter was started
FormatterRan == \E k \in DOMAIN events : events[k] \in {"gofmt", "gofmt failed"}

\* C18: write, then format. The formatter is started only after the file
\* was written, and never after a failed write; the run succeeds only when
\* every requested name was resolved and the file was written and then
\* formatted; when the formatter fails the run fails and the file stays as
\* it was written, unformatted.
C18_WriteThenFormat ==
    /\ FormatterRan =>
          /\ Len(events) = 2
          /\ events[1] = "write"
          /\ outFile # NoFile
    /\ (events # <<>> /\ events[1] = "write failed") =>
          /\ events = <<"write failed">>
          /\ pc = "fatal"
    /\ Succeeded =>
          /\ events = <<"write", "gofmt">>
          /\ outFile # NoFile /\ outFile.Formatted
          /\ \A t \in Requested : t \in DOMAIN allElements /\ allElements[t] # <<>>
    /\ (events # <<>> /\ events[Len(events)] = "gofmt failed") =>
          /\ pc = "fatal"
          /\ outFile # NoFile
          /\ ~outFile.Formatted
          /\ artifact = "written"

\* gofmt failed after the file was written: the run failed, the file is there
C18_Witness ==
    /\ events = <<"write", "gofmt failed">>
    /\ pc = "fatal"
    /\ outFile # NoFile
    /\ ~outFile.Formatted

----------------------------------------------------------------------------
(* C19 *)

\* one run of main as a function of the package and the parsed flags: the
\* file it writes, NoFile when it stops before writing
RunArtifact(p, fs) ==
    LET types == Types(fs.type)
        r     == ProcessAll(p, types, fs.trimprefix, fs.linecomment, EmptyMap)
    IN  IF fs.type = <<>> \/ r.fatal # "none" THEN NoFile
        ELSE [Name |-> OutputName(types, fs.output, fs.bitmask),
              Content |-> Render(TemplateData(p, types, r.elements, fs)),
              Formatted |-> FALSE]

\* the words a shell makes of an unquoted line: the pieces between blanks
RECURSIVE ShellWordsFrom(_, _)
ShellWordsFrom(line, cur) ==
    IF line = <<>> THEN (IF cur = <<>> THEN <<>> ELSE <<cur>>)
    ELSE IF Head(line) = " "
    THEN (IF cur = <<>> THEN <<>> ELSE <<cur>>) \o ShellWordsFrom(Tail(line), <<>>)
    ELSE ShellWordsFrom(Tail(line), Append(cur, Head(line)))

ShellWords(line) == ShellWordsFrom(line, <<>>)

\* the flags a run of the echoed command line would have
EchoedFlags(command) == ParseFlags(Tail(ShellWords(command)), FlagDefaults)

\* the configuration of this run: its flags, the types trimmed and sorted
Configuration == [Flags EXCEPT !.type = Join(Types(typeNames), <<",">>)]

\* C19: header echo. The command in the header of a written file is
\* "enumer", the sorted type list, and then, each once and in this order,
\* the prefix if not empty, -linecomment, -json, -yaml, -sql, the output
\* name if one was given, and -bitmask, in whatever order the flags were
\* given; and running that command gives the same configuration and writes
\* the same file.
C19_HeaderEcho ==
    outFile # NoFile =>
        LET command == outFile.Content.Command
        IN  /\ command =
                 Join(<<<<"e", "n", "u", "m", "e", "r">>>>
                      \o ArgsFor(Join(Types(typeNames), <<",">>), trimPrefix,
                                 lineComment, jsonFlag, yamlFlag, sqlFlag,
                                 output, bitmaskFlag),
                      <<" ">>)
            /\ EchoedFlags(command) = Configuration
            /\ RunArtifact(pkg, EchoedFlags(command)) = [outFile EXCEPT !.Formatted = FALSE]

\* the same, for runs whose output name holds no blank
C19_WithoutBlanks ==
    (" " \notin Range(output)) => C19_HeaderEcho

----------------------------------------------------------------------------
(* C20 *)

\* the -type value with its pieces in the order q
Reordered(q) ==
    LET parts == Split(typeNames)
    IN  Join([i \in DOMAIN parts |-> parts[q[i]]], <<",">>)

\* the positions of the rendered file at which a block begins
BlockStarts == { k \in DOMAIN outFile.Content.Decls :
                    outFile.Content.Decls[k].Decl = "_Map" }

\* C20: type ordering. A written file is the file (name, header, imports,
\* declarations) that every reordering of the requested names gives; its
\* blocks stand in the byte order of the trimmed names; the declarations of
\* one name are never parted by those of another (a declaration with a
\* later one of the same name is followed by one of that name); and a name
\* has as many blocks as the times it was asked for.
C20_TypeOrdering ==
    outFile # NoFile =>
        LET decls == outFile.Content.Decls
            parts == Split(typeNames)
        IN  /\ \A q \in Permutations(DOMAIN parts) :
                  RunArtifact(pkg, [Flags EXCEPT !.type = Reordered(q)])
                      = [outFile EXCEPT !.Formatted = FALSE]
            /\ \A i, k \in BlockStarts :
                  i < k => ~StrLess(decls[k].Type, decls[i].Type)
            /\ \A i, k \in DOMAIN decls :
                  (i < k /\ decls[i].Type = decls[k].Type)
                      => decls[i + 1].Type = decls[i].Type
            /\ \A t \in Requested :
                  Cardinality({ k \in BlockStarts : decls[k].Type = t })
                      = Cardinality({ i \in DOMAIN parts : TrimSpace(parts[i]) = t })

\* " U , T" was asked for: the file begins with the block of T and ends with
\* the block of U
C20_Witness ==
    /\ outFile # NoFile
    /\ typeNames = <<" ", "U", " ", ",", " ", "T">>
    /\ outFile.Content.Decls[1].Type = TypeT
    /\ outFile.Content.Decls[Len(outFile.Content.Decls)].Type = TypeU
    /\ Cardinality(BlockStarts) = 2

----------------------------------------------------------------------------
(* C21 *)

\* the last call was a decoder call
Decoded == pc = "running" /\ call.op \in {"UnmarshalJSON", "UnmarshalYAML", "Scan"}

\* the input of the last decoder call carries a string, and which
CarriesString ==
    CASE call.op = "Scan" -> call.arg.Kind \in {"string", "[]byte"}
      [] OTHER            -> IsStringInput(call.op, call.arg)

CarriedString ==
    CASE call.op = "Scan" -> call.arg.Text
      [] OTHER            -> StringOfInput(call.op, call.arg)

\* C21: the receiver after a failed decode. When the input carries a string
\* that is no display string of the type, the call fails and the receiver
\* holds the zero value, whatever it held before; when the call fails
\* because the input carries no string (a JSON number, a YAML mapping, a
\* Scan source of another type) the receiver holds what it held before, and
\* so it does after Scan(nil), which does not fail.
C21_FailedParseZeroes ==
    Decoded =>
        IF CarriesString
        THEN ValuesDisplayedAs(pkg, allElements[call.type], CarriedString) = {}
                => call.err # <<>> /\ recv = 0
        ELSE /\ call.err # <<>> => recv = call.old
             /\ (call.op = "Scan" /\ call.arg.Kind = "nil")
                   => call.err = <<>> /\ recv = call.old

\* the input of the last decoder call is no string, but the decoder of the
\* library hands the generated method a string for it all the same: JSON
\* null leaves the empty string, a YAML scalar of another type its text
DecodedAsString ==
    \/ call.op = "UnmarshalJSON" /\ call.arg = JSONNull
    \/ call.op = "UnmarshalYAML" /\ call.arg.Kind = "scalar" /\ call.arg.Tag # "!!str"

\* the same, for inputs that are strings or that the library refuses
C21_ExceptDecodedScalars ==
    (Decoded /\ ~DecodedAsString) => C21_FailedParseZeroes

----------------------------------------------------------------------------
(* C22 *)

\* the table literals of the written file, as the Go scanner reads them, hold
\* the display string of every Element
LiteralsHoldDisplay ==
    \A k \in DOMAIN outFile.Content.Decls :
        LET elems == outFile.Content.Decls[k].Elements
        IN  \A i \in DOMAIN elems :
                Interpreted(elems[i].StringValue)
                    = [ok |-> TRUE, text |-> elems[i].StringValue]

\* C22: literal fidelity. For every Element, whatever its display string (a
\* comment's text with a double quote or a backslash in it, or the empty
\* string left when the prefix is the whole name), the tables of the
\* generated file hold exactly that display string: String() of the
\* Element's value returns it unchanged and TString accepts exactly the
\* display strings.
C22_LiteralFidelity ==
    /\ outFile # NoFile => LiteralsHoldDisplay
    /\ (pc = "running" /\ call.op = "String"
            /\ IsDeclared(pkg, call.type, call.recv)) =>
          \E i \in DOMAIN allElements[call.type] :
              /\ ConstVal(pkg, allElements[call.type][i].Name) = call.recv
              /\ call.ret = allElements[call.type][i].StringValue
    /\ (pc = "running" /\ call.op = "TypeString") =>
          (call.ret.ok <=>
              \E i \in DOMAIN allElements[call.type] :
                  allElements[call.type][i].StringValue = call.arg)

\* no display string of the run has a double quote or a backslash in it
PlainDisplay ==
    \A t \in DOMAIN allElements : \A i \in DOMAIN allElements[t] :
        \A k \in DOMAIN allElements[t][i].StringValue :
            allElements[t][i].StringValue[k] \notin {"\"", "\\"}

\* what holds of C22: without a double quote and without a backslash in a
\* display string, the empty display string included, the tables hold the
\* display strings
C22_PlainFidelity == PlainDisplay => C22_LiteralFidelity

\* the empty display string of the constant P under the prefix "P" was
\* returned by String() in a running program
C22_EmptyDisplay ==
    /\ pc = "running"
    /\ call.op = "String"
    /\ call.recv = 0
    /\ call.ret = <<>>
    /\ \E i \in DOMAIN allElements[call.type] :
          allElements[call.type][i] = Element(<<"P">>, 0, <<>>)

----------------------------------------------------------------------------
(* C23 *)

\* the values of the constants declared with the type called t, in source
\* order
DeclaredValues(p, t) ==
    [i \in DOMAIN DeclaredOf(p, t) |-> DeclaredOf(p, t)[i].Val]

\* C23: TValues() is stable. Whatever calls came before, a caller's writes
\* into a sequence that TValues() returned earlier included, every call of
\* TValues() returns the values of all declared constants of the type in
\* source order.
C23_ValuesStable ==
    (pc = "running" /\ call.op = "Values") =>
        call.ret = DeclaredValues(pkg, call.type)

\* what holds of C23: a caller's writes reach no other table, so String()
\* and Valid() answer as before the writes, and the slice keeps its length
C23_OtherTablesStable ==
    pc = "running" =>
        \A t \in DOMAIN tables :
            /\ tables[t].Map = TablesOf(pkg, allElements[t]).Map
            /\ tables[t].NameToValueMap = TablesOf(pkg, allElements[t]).NameToValueMap
            /\ Len(tables[t].Values) = Len(DeclaredValues(pkg, t))

----------------------------------------------------------------------------
(* C24 *)

\* C24: import consistency. Whatever the toggles and however many types, the
\* written file lists each import once: "fmt" always, "database/sql/driver"
\* exactly with -sql, "encoding/json" exactly with -json, "gopkg.in/yaml.v3"
\* exactly with -yaml; so the imports are exactly the packages the emitted
\* methods refer to.
C24_Imports ==
    outFile # NoFile =>
        LET imps  == outFile.Content.Imports
            decls == outFile.Content.Decls
        IN  /\ \A i, j \in DOMAIN imps : i # j => imps[i] # imps[j]
            /\ "fmt" \in Range(imps)
            /\ "database/sql/driver" \in Range(imps) <=> sqlFlag
            /\ "encoding/json" \in Range(imps) <=> jsonFlag
            /\ "gopkg.in/yaml.v3" \in Range(imps) <=> yamlFlag
            /\ Range(imps) =
                  UNION { PackagesUsed(decls[k].Decl) : k \in DOMAIN decls }

\* a file for two types was written with -json and -sql and without -yaml:
\* three imports, and both types have Value and no UnmarshalYAML
C24_Witness ==
    /\ outFile # NoFile
    /\ jsonFlag /\ sqlFlag /\ ~yamlFlag
    /\ outFile.Content.Imports = <<"database/sql/driver", "fmt", "encoding/json">>
    /\ \E i, j \in DOMAIN outFile.Content.Decls :
          /\ outFile.Content.Decls[i].Type # outFile.Content.Decls[j].Type
          /\ outFile.Content.Decls[i].Decl = "Value"
          /\ outFile.Content.Decls[j].Decl = "Value"
    /\ \A k \in DOMAIN outFile.Content.Decls :
          outFile.Content.Decls[k].Decl # "UnmarshalYAML"

=============================================================================
